---- MODULE Spec2Model ----
(***************************************************************************)
(* Model of the personalization store of the health-risk backend           *)
(* (app/services/personalization_engine.py) and of the code that reads it. *)
(*                                                                         *)
(* Probabilities, weights and thresholds are reals in the program; the     *)
(* model keeps them as integers in hundredths (0.5 is 50).                 *)
(* Threads are the request handlers of the server, which call the engine   *)
(* concurrently; a thread switch can happen between any two accesses to    *)
(* shared state (the module-level lock table, the lock objects, the files).*)
(***************************************************************************)
EXTENDS Integers, Sequences, FiniteSets, TLC

\* ------------------------------------------------------------------
\* Bounds of the model
\* ------------------------------------------------------------------
\* Total number of engine calls started in one behaviour.
MaxOps == 2

Threads == {"t1", "t2"}
Patients == {"p1", "p2"}
NoThread == "none"
ThreadBefore(u, t) == u = "t1" /\ t = "t2"

\* ------------------------------------------------------------------
\* Values
\* ------------------------------------------------------------------
EmptyMap == [k \in {} |-> 0]

\* A caller-supplied value float() cannot convert (such as "abc" or None).
NotANumber == -1

IsNumeric(v) == v # NotANumber

\* float(v) on the model's numeric values; callers guard it with IsNumeric,
\* as the code guards it with try/except.
Float(v) == v

\* dict.get(k, d)
Get(m, k, d) == IF k \in DOMAIN m THEN m[k] ELSE d

\* dict.update / per-key assignment: keys of upd win, other keys of base stay.
MergeMap(base, upd) ==
    [k \in (DOMAIN base) \cup (DOMAIN upd) |->
        IF k \in DOMAIN upd THEN upd[k] ELSE base[k]]

\* The entries of upd that float() accepts (the others are logged and ignored).
NumericPart(upd) ==
    [k \in {x \in DOMAIN upd : IsNumeric(upd[x])} |-> Float(upd[k])]

DEFAULT_WEIGHTS == ("tabular" :> 50) @@ ("text" :> 30) @@ ("image" :> 20)

SettingsKeys == {"weights", "thresholds", "profile"}

DefaultFor(k) == IF k = "weights" THEN DEFAULT_WEIGHTS ELSE EmptyMap

\* {"weights": DEFAULT_WEIGHTS.copy(), "thresholds": {}, "profile": {}}
DefaultSettings == [k \in SettingsKeys |-> DefaultFor(k)]

\* data.setdefault("weights", ...); data.setdefault("thresholds", {}); ...
SetDefaults(data) ==
    [k \in SettingsKeys \cup DOMAIN data |->
        IF k \in DOMAIN data THEN data[k] ELSE DefaultFor(k)]

\* What a call returns to its caller, or that it raised.
Returned(v) == [raised |-> FALSE, value |-> v]
Raised == [raised |-> TRUE, value |-> <<>>]
NoResult == [raised |-> FALSE, value |-> "none"]

\* history_text = ""; img_text = "": a text is modelled by the set of the
\* snapshots that json.dumps writes into it.
NoTexts == [history_text |-> {}, img_text |-> {}]

\* The local variables of predict_risk before the handler has set them;
\* recommendations_result is unbound until get_recommendations has returned.
NoLocals ==
    [disease_probs |-> EmptyMap, symptoms |-> <<>>, weights |-> EmptyMap,
     text_condition_probs |-> EmptyMap, image_probs |-> EmptyMap,
     fused |-> EmptyMap, suggestions |-> <<>>,
     recommendations_result |-> "unbound", failed |-> {}]

\* ------------------------------------------------------------------
\* Files.  A file is absent, holds a complete JSON document ("ok"), holds
\* the prefix of a document that a writer has not finished ("partial"), or
\* holds bytes that are no JSON object ("corrupt", damage from outside).
\* ------------------------------------------------------------------
AbsentFile == [kind |-> "absent", doc |-> EmptyMap]
CorruptFile == [kind |-> "corrupt", doc |-> EmptyMap]
PartialFile == [kind |-> "partial", doc |-> EmptyMap]
OkFile(d) == [kind |-> "ok", doc |-> d]

\* pdir / WEIGHTS_FILENAME
WeightsPath(p) == <<"weights.json", p>>

\* pdir / HISTORY_CONTEXT_FILENAME, pdir / IMAGE_CONTEXT_FILENAME
ContextPath(o, p) ==
    IF o = "update_history_context" THEN <<"context_history.json", p>>
    ELSE <<"context_image.json", p>>

ContextOps == {"update_history_context", "update_image_context"}

Paths ==
    {WeightsPath(p) : p \in Patients}
      \cup {<<"tmp", t>> : t \in Threads}
      \cup {ContextPath(o, p) : o \in ContextOps, p \in Patients}

\* ------------------------------------------------------------------
\* Inputs of the calls
\* ------------------------------------------------------------------
NoAuthor == "None"

\* isinstance(settings, dict) fails for NotADict.
NotADict == [isdict |-> FALSE, doc |-> EmptyMap]
ADict(d) == [isdict |-> TRUE, doc |-> d]

CallOf(o, a, au) == [op |-> o, arg |-> a, author |-> au]

UpdateOps == {"update_weights", "update_thresholds", "update_profile"}

\* The calls of the settings store that the request handlers make.
StoreCalls ==
    { CallOf("load_patient_settings", EmptyMap, NoAuthor),
      CallOf("update_weights", ("tabular" :> 90), NoAuthor),
      CallOf("update_weights", ("text" :> 70) @@ ("image" :> NotANumber),
             "clinician"),
      CallOf("update_thresholds", ("low" :> 50) @@ ("high" :> 30), NoAuthor),
      CallOf("update_thresholds", ("medium" :> 60), "clinician"),
      CallOf("update_profile", ("age" :> 55), NoAuthor),
      CallOf("save_patient_settings",
             ADict("weights" :> ("tabular" :> 40)), "clinician"),
      CallOf("save_patient_settings", NotADict, NoAuthor) }

\* Readers and writers of one settings document.
LoadSaveCalls ==
    { CallOf("load_patient_settings", EmptyMap, NoAuthor),
      CallOf("update_weights", ("tabular" :> 90), NoAuthor),
      CallOf("save_patient_settings",
             ADict("weights" :> ("tabular" :> 40)), "clinician") }

\* A snapshot json.dump cannot serialise (a set, an array object, ...).
NotSerializable == "not-serializable"

\* Snapshots appended to the context documents of a patient.
ContextCalls ==
    { CallOf("update_history_context", "visit-1", NoAuthor),
      CallOf("update_history_context", "visit-2", NoAuthor),
      CallOf("update_history_context", NotSerializable, NoAuthor),
      CallOf("update_image_context", "scan-1", NoAuthor) }

\* Updates of the settings of two patients.
PatientCalls ==
    { CallOf("update_weights", ("tabular" :> 90), NoAuthor),
      CallOf("update_profile", ("age" :> 55), "clinician") }

VARIABLES
    files,        \* path -> file: the settings documents and the temp files
    audit,        \* patient -> history.csv: [exists, rows]
    writeLocks,   \* _write_locks: patient_id -> lock object, 0 when not in the dict
    locks,        \* the threading.Lock objects created so far: object -> owner
    clock,        \* datetime.utcnow(), in ticks
    pc,           \* thread -> position in the call it is running
    op,           \* thread -> the call it runs (or ran last)
    pid,          \* thread -> patient_id argument
    arg,          \* thread -> the partial update / settings / snapshot argument
    author,       \* thread -> author argument
    settings,     \* thread -> local variable settings (data in load)
    raw,          \* thread -> what load's open()/json.load read from the file
    lock,         \* thread -> local variable lock of save_patient_settings
    existing,     \* thread -> local variable existing of update_*_context
    outcome,      \* thread -> how its last call ended: "ok" (returned),
                  \*   "logged" (returned after its except branch logged an
                  \*   exception), "raised", or "none" (still running)
    before,       \* history: thread -> the context mapping on disk when its
                  \*   update_*_context call started; the settings a load
                  \*   would have returned when its update_* call started
    result,       \* thread -> what its last call returned to its caller
    texts,        \* thread -> local variables history_text and img_text of
                  \*   auto_adapt_weights_from_context
    locals,       \* thread -> local variables of predict_risk, and the
                  \*   history of the adapter calls that did not return
    started,      \* number of calls started
    okSaves       \* history: patient -> number of saves that returned normally

vars == <<files, audit, writeLocks, locks, clock, pc, op, pid, arg, author,
          settings, raw, lock, existing, outcome, before, result, texts,
          locals, started, okSaves>>

tvars == <<op, pid, arg, author, before>>

\* What the store actions leave alone of the context updates.
cvars == <<existing, result, texts, locals>>

\* ------------------------------------------------------------------
\* Initial state: no call is running, the lock table is empty, and no
\* patient has files yet, except that the settings document of p1 may be
\* there and damaged (left unreadable by something outside the program).
\* ------------------------------------------------------------------
InitWith(Stored) ==
    /\ \E f \in Stored :
          files = [x \in Paths |-> IF x = WeightsPath("p1") THEN f
                                   ELSE AbsentFile]
    /\ audit = [p \in Patients |-> [exists |-> FALSE, rows |-> <<>>]]
    /\ writeLocks = [p \in Patients |-> 0]
    /\ locks = <<>>
    /\ clock = 0
    /\ pc = [t \in Threads |-> "idle"]
    /\ op = [t \in Threads |-> "none"]
    /\ pid = [t \in Threads |-> "p1"]
    /\ arg = [t \in Threads |-> EmptyMap]
    /\ author = [t \in Threads |-> NoAuthor]
    /\ settings = [t \in Threads |-> EmptyMap]
    /\ raw = [t \in Threads |-> AbsentFile]
    /\ lock = [t \in Threads |-> 0]
    /\ existing = [t \in Threads |-> EmptyMap]
    /\ outcome = [t \in Threads |-> "none"]
    /\ before = [t \in Threads |-> EmptyMap]
    /\ result = [t \in Threads |-> NoResult]
    /\ texts = [t \in Threads |-> NoTexts]
    /\ locals = [t \in Threads |-> NoLocals]
    /\ started = 0
    /\ okSaves = [p \in Patients |-> 0]

Init == InitWith({AbsentFile, CorruptFile})

\* The call returns (r = "ok") or raises (r = "raised") to its caller.
Finish(t, r) ==
    /\ pc' = [pc EXCEPT ![t] = "idle"]
    /\ outcome' = [outcome EXCEPT ![t] = r]

Goto(t, label) == pc' = [pc EXCEPT ![t] = label]

\* ------------------------------------------------------------------
\* A request handler calls one of the operations of the engine.
\* ------------------------------------------------------------------
\* The server hands a request to an idle worker thread; the workers are
\* interchangeable, so the model gives it to the first idle one.
FirstLabel(o) ==
    CASE o = "save_patient_settings" -> "save_entry"
      [] o \in ContextOps -> "ctx_exists"
      [] o = "explain" -> "explain"
      [] o = "predict_risk" -> "preprocess"
      [] o = "combine_predictions" -> "combine"
      [] o = "auto_adapt_weights_from_context" -> "adapt_history"
      [] o = "_merge_duplicate_recs" -> "merge_duplicates"
      [] o = "_rule_based_recommendations" -> "rules"
      [] o = "build_patient_dashboard" -> "build_dashboard"
      [] OTHER -> "load_exists"

\* The mapping a context document holds; nothing can be read from a file
\* that is absent or is no complete JSON document.
Entries(f) == IF f.kind = "ok" THEN f.doc ELSE EmptyMap

\* What ParseSettings (below) computes; stated here for the history
\* variable, which records it before the call has read anything.
SettingsIn(f) == IF f.kind = "ok" THEN SetDefaults(f.doc) ELSE DefaultSettings

\* History: what the document the call is about held when the call started.
BeforeCall(o, p) ==
    CASE o \in ContextOps -> Entries(files[ContextPath(o, p)])
      [] o \in UpdateOps -> SettingsIn(files[WeightsPath(p)])
      [] OTHER -> EmptyMap

\* tvars: op, pid, arg, author, before are set here and only here.
Call(t, c, p) ==
    /\ pc[t] = "idle"
    /\ \A u \in Threads : pc[u] = "idle" => ~ThreadBefore(u, t)
    /\ started < MaxOps
    /\ started' = started + 1
    /\ op' = [op EXCEPT ![t] = c.op]
    /\ pid' = [pid EXCEPT ![t] = p]
    /\ arg' = [arg EXCEPT ![t] = c.arg]
    /\ author' = [author EXCEPT ![t] = c.author]
    /\ outcome' = [outcome EXCEPT ![t] = "none"]
    /\ lock' = [lock EXCEPT ![t] = 0]
    /\ raw' = [raw EXCEPT ![t] = AbsentFile]
    /\ settings' = [settings EXCEPT ![t] = IF c.op = "save_patient_settings"
                                           THEN c.arg.doc ELSE EmptyMap]
    /\ existing' = [existing EXCEPT ![t] = EmptyMap]
    /\ before' = [before EXCEPT ![t] = BeforeCall(c.op, p)]
    /\ result' = [result EXCEPT ![t] = NoResult]
    /\ texts' = [texts EXCEPT ![t] = NoTexts]
    /\ locals' = [locals EXCEPT ![t] = NoLocals]
    /\ pc' = [pc EXCEPT ![t] = FirstLabel(c.op)]
    /\ UNCHANGED <<files, audit, writeLocks, locks, clock, okSaves>>

CallStore(t) == \E c \in StoreCalls : Call(t, c, "p1")

CallLoadSave(t) == \E c \in LoadSaveCalls : Call(t, c, "p1")

CallPatients(t) == \E c \in PatientCalls : \E p \in Patients : Call(t, c, p)

\* ------------------------------------------------------------------
\* load_patient_settings
\* ------------------------------------------------------------------
\* A load that goes on to store the settings it returns.
AfterLoadStoring(t) ==
    IF op[t] = "get_recommendations" THEN "recommend" ELSE "merge"

\* Where the thread continues when load_patient_settings has returned.
AfterLoad(t) ==
    CASE op[t] = "load_patient_settings" -> "idle"
      [] op[t] = "get_recommendations" -> "recommend"
      [] op[t] = "predict_risk" -> "apply_personalization"
      [] OTHER -> "merge"

LoadReturn(t, data) ==
    /\ settings' = [settings EXCEPT ![t] = data]
    /\ pc' = [pc EXCEPT ![t] = AfterLoad(t)]
    /\ outcome' = [outcome EXCEPT ![t] =
                     IF op[t] = "load_patient_settings" THEN "ok" ELSE @]

\* if not weights_path.exists(): return the defaults
LoadExists(t) ==
    /\ pc[t] = "load_exists"
    /\ IF files[WeightsPath(pid[t])].kind = "absent"
       THEN LoadReturn(t, DefaultSettings)
       ELSE /\ Goto(t, "load_read")
            /\ UNCHANGED <<settings, outcome>>
    /\ UNCHANGED <<files, audit, writeLocks, locks, clock, tvars, cvars, raw, lock,
                   started, okSaves>>

\* An except branch that returns an empty dict.
ParseSettingsEmptyOnError(f) ==
    IF f.kind = "ok" THEN SetDefaults(f.doc) ELSE EmptyMap

\* What json.load and the setdefault calls make of the file's content; the
\* except branch returns the defaults for anything that is no JSON object.
ParseSettings(f) ==
    IF f.kind = "ok" THEN SetDefaults(f.doc) ELSE DefaultSettings

\* open(weights_path), json.load(f), setdefault x3, return data
LoadRead(t) ==
    /\ pc[t] = "load_read"
    /\ raw' = [raw EXCEPT ![t] = files[WeightsPath(pid[t])]]
    /\ LoadReturn(t, ParseSettings(files[WeightsPath(pid[t])]))
    /\ UNCHANGED <<files, audit, writeLocks, locks, clock, tvars, cvars, lock,
                   started, okSaves>>

\* ------------------------------------------------------------------
\* update_weights / update_thresholds / update_profile: the merge of the
\* partial update into the loaded settings, then the call of save.
\* ------------------------------------------------------------------
SubMapOf(o) ==
    CASE o = "update_weights" -> "weights"
      [] o = "update_thresholds" -> "thresholds"
      [] OTHER -> "profile"

\* A merge that puts the partial update in the place of the sub-map.
MergeUpdateReplace(o, s, upd) ==
    [s EXCEPT ![SubMapOf(o)] =
        IF o = "update_profile" THEN upd ELSE NumericPart(upd)]

\* update_weights and update_thresholds store float(v) and skip the values
\* float() rejects; update_profile stores the values as they are.
MergeUpdate(o, s, upd) ==
    [s EXCEPT ![SubMapOf(o)] =
        MergeMap(@, IF o = "update_profile" THEN upd ELSE NumericPart(upd))]

Merge(t) ==
    /\ pc[t] = "merge"
    /\ settings' = [settings EXCEPT ![t] = MergeUpdate(op[t], @, arg[t])]
    /\ Goto(t, "save_entry")
    /\ UNCHANGED <<files, audit, writeLocks, locks, clock, tvars, cvars, raw, lock,
                   outcome, started, okSaves>>

\* ------------------------------------------------------------------
\* _get_lock: the check, the creation and the final lookup are separate
\* accesses to the module-level dict _write_locks.
\* ------------------------------------------------------------------
\* A lock table that files every lock under one key.
LockKeyShared(patient_id) == "p1"

\* The key under which _get_lock files the lock of a patient.
LockKey(patient_id) == patient_id

\* isinstance(settings, dict)
IsDict(t) == op[t] # "save_patient_settings" \/ arg[t].isdict

\* save_patient_settings up to "if patient_id not in _write_locks"
SaveEntry(t) ==
    /\ pc[t] = "save_entry"
    /\ IF ~IsDict(t)
       THEN Finish(t, "raised")
       ELSE /\ Goto(t, IF writeLocks[LockKey(pid[t])] = 0
                       THEN "getlock_create" ELSE "getlock_return")
            /\ UNCHANGED outcome
    /\ UNCHANGED <<files, audit, writeLocks, locks, clock, tvars, cvars, settings,
                   raw, lock, started, okSaves>>

\* _write_locks[patient_id] = threading.Lock()
GetLockCreate(t) ==
    /\ pc[t] = "getlock_create"
    /\ locks' = Append(locks, NoThread)
    /\ writeLocks' = [writeLocks EXCEPT ![LockKey(pid[t])] = Len(locks) + 1]
    /\ Goto(t, "getlock_return")
    /\ UNCHANGED <<files, audit, clock, tvars, cvars, settings, raw, lock, outcome,
                   started, okSaves>>

\* return _write_locks[patient_id]
GetLockReturn(t) ==
    /\ pc[t] = "getlock_return"
    /\ lock' = [lock EXCEPT ![t] = writeLocks[LockKey(pid[t])]]
    /\ Goto(t, "acquire")
    /\ UNCHANGED <<files, audit, writeLocks, locks, clock, tvars, cvars, settings,
                   raw, outcome, started, okSaves>>

\* ------------------------------------------------------------------
\* save_patient_settings, inside "with lock:"
\* ------------------------------------------------------------------
\* with lock: (blocks while another thread owns the lock object)
Acquire(t) ==
    /\ pc[t] = "acquire"
    /\ locks[lock[t]] = NoThread
    /\ locks' = [locks EXCEPT ![lock[t]] = t]
    /\ Goto(t, "mkstemp")
    /\ UNCHANGED <<files, audit, writeLocks, clock, tvars, cvars, settings, raw,
                   lock, outcome, started, okSaves>>

\* A save that writes the document in place.
TmpPathInPlace(t) == WeightsPath(pid[t])

\* The file json.dump writes to: the fresh file of tempfile.mkstemp(dir=pdir).
TmpPath(t) == <<"tmp", t>>

\* tempfile.mkstemp creates an empty file, or fails.
Mkstemp(t) ==
    /\ pc[t] = "mkstemp"
    /\ \/ /\ files' = [files EXCEPT ![TmpPath(t)] = PartialFile]
          /\ Goto(t, "dump")
       \/ /\ Goto(t, "save_except")
          /\ UNCHANGED files
    /\ UNCHANGED <<audit, writeLocks, locks, clock, tvars, cvars, settings, raw,
                   lock, outcome, started, okSaves>>

\* json.dump(settings, tmpf) writes the whole document, or fails part-way.
Dump(t) ==
    /\ pc[t] = "dump"
    /\ \/ /\ files' = [files EXCEPT ![TmpPath(t)] = OkFile(settings[t])]
          /\ Goto(t, "move")
       \/ /\ Goto(t, "save_except")
          /\ UNCHANGED files
    /\ UNCHANGED <<audit, writeLocks, locks, clock, tvars, cvars, settings, raw,
                   lock, outcome, started, okSaves>>

\* rename(2): the destination names the source's file from now on.
Rename(fs, src, dst) ==
    IF src = dst THEN fs
    ELSE [fs EXCEPT ![dst] = fs[src], ![src] = AbsentFile]

\* A move that has replaced the document when it fails.
MoveReplacesThenFails(t) ==
    /\ pc[t] = "move"
    /\ files' = Rename(files, TmpPath(t), WeightsPath(pid[t]))
    /\ \/ Goto(t, "audit")
       \/ Goto(t, "save_except")
    /\ UNCHANGED <<audit, writeLocks, locks, clock, tvars, cvars, settings, raw,
                   lock, outcome, started, okSaves>>

\* shutil.move(tmp_path, weights_path): a rename within pdir, or a failure.
Move(t) ==
    /\ pc[t] = "move"
    /\ \/ /\ files' = Rename(files, TmpPath(t), WeightsPath(pid[t]))
          /\ Goto(t, "audit")
       \/ /\ Goto(t, "save_except")
          /\ UNCHANGED files
    /\ UNCHANGED <<audit, writeLocks, locks, clock, tvars, cvars, settings, raw,
                   lock, outcome, started, okSaves>>

\* A handler that logs the exception and goes on, as the handler of the
\* audit append does.
SaveFailedSwallowed(t) ==
    /\ pc[t] = "save_except"
    /\ Goto(t, "audit")
    /\ UNCHANGED <<files, audit, writeLocks, locks, clock, tvars, cvars,
                   settings, raw, lock, outcome, started, okSaves>>

\* except Exception: logger.exception(...); raise  -- leaving "with lock"
\* releases the lock and the exception reaches the caller of save and of the
\* update_* method, which has no handler.
SaveFailed(t) ==
    /\ pc[t] = "save_except"
    /\ locks' = [locks EXCEPT ![lock[t]] = NoThread]
    /\ Finish(t, "raised")
    /\ UNCHANGED <<files, audit, writeLocks, clock, tvars, cvars, settings, raw,
                   lock, started, okSaves>>

GetMap(s, k) == IF k \in DOMAIN s THEN s[k] ELSE EmptyMap

\* _history_summary prints the weights and the thresholds of the settings
\* ("no-changes" when both are empty); the model keeps what it prints.
HistorySummary(s) == <<GetMap(s, "weights"), GetMap(s, "thresholds")>>

HeaderRow ==
    [hdr |-> TRUE, ts |-> 0, author |-> "author",
     summary |-> <<EmptyMap, EmptyMap>>]

\* entry = {"timestamp": now, "author": author or "system", "summary": ...}
AuditEntry(t) ==
    [hdr |-> FALSE, ts |-> clock,
     author |-> IF author[t] = NoAuthor THEN "system" ELSE author[t],
     summary |-> HistorySummary(settings[t])]

\* open(history_path, "a") and the csv writer: the header when the file did
\* not exist, then the row.
AppendAudit(a, row) ==
    [exists |-> TRUE,
     rows |-> IF a.exists THEN Append(a.rows, row)
              ELSE Append(Append(a.rows, HeaderRow), row)]

\* The second try block: the row is appended, or the append fails and the
\* except branch only logs it.
Audit(t) ==
    /\ pc[t] = "audit"
    /\ clock' = clock + 1
    /\ \/ audit' = [audit EXCEPT ![pid[t]] = AppendAudit(@, AuditEntry(t))]
       \/ UNCHANGED audit
    /\ Goto(t, "release")
    /\ UNCHANGED <<files, writeLocks, locks, tvars, cvars, settings, raw, lock,
                   outcome, started, okSaves>>

\* A return from save that leaves the lock taken.
ReleaseKeepsLock(t) ==
    /\ pc[t] = "release"
    /\ okSaves' = [okSaves EXCEPT ![pid[t]] = @ + 1]
    /\ Finish(t, "ok")
    /\ UNCHANGED <<files, audit, writeLocks, locks, clock, tvars, cvars,
                   settings, raw, lock, started>>

\* end of "with lock": release, and save returns None
Release(t) ==
    /\ pc[t] = "release"
    /\ locks' = [locks EXCEPT ![lock[t]] = NoThread]
    /\ okSaves' = [okSaves EXCEPT ![pid[t]] = @ + 1]
    /\ Finish(t, "ok")
    /\ UNCHANGED <<files, audit, writeLocks, clock, tvars, cvars, settings, raw,
                   lock, started>>

\* ------------------------------------------------------------------
\* The store under concurrent callers
\* ------------------------------------------------------------------
\* One step of the call a thread is running.
Step(t) ==
    \/ LoadExists(t)
    \/ LoadRead(t)
    \/ Merge(t)
    \/ SaveEntry(t)
    \/ GetLockCreate(t)
    \/ GetLockReturn(t)
    \/ Acquire(t)
    \/ Mkstemp(t)
    \/ Dump(t)
    \/ Move(t)
    \/ SaveFailed(t)
    \/ Audit(t)
    \/ Release(t)

Next == \E t \in Threads : CallStore(t) \/ Step(t)

Spec == Init /\ [][Next]_vars

NextLoadSave == \E t \in Threads : CallLoadSave(t) \/ Step(t)

SpecLoadSave == Init /\ [][NextLoadSave]_vars

NextPatients == \E t \in Threads : CallPatients(t) \/ Step(t)

SpecPatients == Init /\ [][NextPatients]_vars

\* Updates of the settings of one patient, under a scheduler that lets
\* every thread that can take a step take one in the end.
CallUpdates(t) == \E c \in PatientCalls : Call(t, c, "p1")

NextUpdates == \E t \in Threads : CallUpdates(t) \/ Step(t)

SpecUpdatesFair ==
    /\ Init
    /\ [][NextUpdates]_vars
    /\ \A t \in Threads : WF_vars(Step(t))

\* Calls of the settings store made one after the other.
CallStoreSeq(t) ==
    /\ \A u \in Threads : pc[u] = "idle"
    /\ CallStore(t)

NextStoreSeq == \E t \in Threads : CallStoreSeq(t) \/ Step(t)

SpecStoreSeq == Init /\ [][NextStoreSeq]_vars

\* ------------------------------------------------------------------
\* update_history_context / update_image_context.  Neither takes a lock;
\* every exception inside is caught and logged, and the call returns None.
\* ------------------------------------------------------------------
svars == <<audit, writeLocks, locks, settings, raw, lock, result, texts,
          locals, started, okSaves>>

\* existing = {}; if history_path.exists(): ...
CtxExists(t) ==
    /\ pc[t] = "ctx_exists"
    /\ existing' = [existing EXCEPT ![t] = EmptyMap]
    /\ Goto(t, IF files[ContextPath(op[t], pid[t])].kind = "absent"
               THEN "ctx_stamp" ELSE "ctx_read")
    /\ UNCHANGED <<files, clock, tvars, outcome, svars>>

\* existing = json.load(f); a file that is no complete document raises.
CtxRead(t) ==
    /\ pc[t] = "ctx_read"
    /\ IF files[ContextPath(op[t], pid[t])].kind = "ok"
       THEN /\ existing' = [existing EXCEPT ![t] =
                              files[ContextPath(op[t], pid[t])].doc]
            /\ Goto(t, "ctx_stamp")
            /\ UNCHANGED outcome
       ELSE /\ Finish(t, "logged")
            /\ UNCHANGED existing
    /\ UNCHANGED <<files, clock, tvars, svars>>

\* existing.update({datetime.utcnow().isoformat() + "Z": history_data});
\* the model lets every reading of the clock give a later time.
CtxStamp(t) ==
    /\ pc[t] = "ctx_stamp"
    /\ existing' = [existing EXCEPT ![t] = MergeMap(@, clock :> arg[t])]
    /\ clock' = clock + 1
    /\ Goto(t, "ctx_open")
    /\ UNCHANGED <<files, tvars, outcome, svars>>

\* open(path, "w") truncates the document in place, or fails.
CtxOpen(t) ==
    /\ pc[t] = "ctx_open"
    /\ \/ /\ files' = [files EXCEPT ![ContextPath(op[t], pid[t])] = PartialFile]
          /\ Goto(t, "ctx_dump")
          /\ UNCHANGED outcome
       \/ /\ Finish(t, "logged")
          /\ UNCHANGED files
    /\ UNCHANGED <<clock, tvars, existing, svars>>

IsSerializable(m) == \A k \in DOMAIN m : m[k] # NotSerializable

\* json.dump(existing, f): writes the whole mapping, or stops part-way on a
\* value it cannot serialise or on a write error.
CtxDump(t) ==
    /\ pc[t] = "ctx_dump"
    /\ \/ /\ IsSerializable(existing[t])
          /\ files' = [files EXCEPT ![ContextPath(op[t], pid[t])] =
                         OkFile(existing[t])]
          /\ Finish(t, "ok")
       \/ /\ Finish(t, "logged")
          /\ UNCHANGED files
    /\ UNCHANGED <<clock, tvars, existing, svars>>

CtxStep(t) ==
    \/ CtxExists(t)
    \/ CtxRead(t)
    \/ CtxStamp(t)
    \/ CtxOpen(t)
    \/ CtxDump(t)

CallContext(t) == \E c \in ContextCalls : Call(t, c, "p1")

\* Context updates of concurrent requests.
NextContext == \E t \in Threads : CallContext(t) \/ CtxStep(t)

SpecContext == Init /\ [][NextContext]_vars

\* Context updates made one after the other.
CallContextSeq(t) ==
    /\ \A u \in Threads : pc[u] = "idle"
    /\ CallContext(t)

NextContextSeq == \E t \in Threads : CallContextSeq(t) \/ CtxStep(t)

SpecContextSeq == Init /\ [][NextContextSeq]_vars

\* ------------------------------------------------------------------
\* auto_adapt_weights_from_context: reads the two context documents and
\* returns a weight map; it writes nothing.
\* ------------------------------------------------------------------
Return(t, r) ==
    /\ result' = [result EXCEPT ![t] = r]
    /\ Finish(t, IF r.raised THEN "raised" ELSE "ok")

\* base_weights or DEFAULT_WEIGHTS.copy(): None and {} give the defaults.
BaseWeights(a) == IF a = EmptyMap THEN DEFAULT_WEIGHTS ELSE a

\* The words the rules look for that str.lower() of a snapshot contains.
KeywordsIn(snapshot) ==
    CASE snapshot = "Chronic cough" -> {"chronic"}
      [] snapshot = "inflammation, long-term" -> {"inflammation", "long-term"}
      [] snapshot = "retina scan" -> {"retina"}
      [] OTHER -> {}

\* json.dumps(json.load(f)).lower(): the words in the values of the document
TextOf(f) == UNION {KeywordsIn(f.doc[k]) : k \in DOMAIN f.doc}

\* min(w * 1.2, 2.0) and w * 1.1, w * 1.15 on hundredths, rounded down
Times(w, percent) == (w * percent) \div 100

Min(a, b) == IF a <= b THEN a ELSE b

\* adapted = dict(base_weights), then the three rules
Adapted(base_weights, history_text, img_text) ==
    LET a1 == IF "chronic" \in history_text \/ "long-term" \in history_text
              THEN MergeMap(base_weights,
                     "disease" :> Min(Times(Get(base_weights, "disease", 100),
                                            120), 200))
              ELSE base_weights
        a2 == IF "inflammation" \in history_text
              THEN MergeMap(a1, "symptom" :>
                                  Times(Get(a1, "symptom", 100), 110))
              ELSE a1
    IN  IF "retina" \in img_text \/ "lesion" \in img_text
        THEN MergeMap(a2, "image" :> Times(Get(a2, "image", 100), 115))
        ELSE a2

\* if hist_path.exists(): history_text = json.dumps(json.load(f)).lower();
\* a document json.load rejects ends the call in the except branch, which
\* returns base_weights.
AdaptHistory(t) ==
    /\ pc[t] = "adapt_history"
    /\ LET f == files[ContextPath("update_history_context", pid[t])]
       IN  IF f.kind \in {"absent", "ok"}
           THEN /\ texts' = [texts EXCEPT ![t].history_text =
                               IF f.kind = "ok" THEN TextOf(f) ELSE {}]
                /\ Goto(t, "adapt_image")
                /\ UNCHANGED <<result, outcome>>
           ELSE /\ Return(t, Returned(BaseWeights(arg[t])))
                /\ UNCHANGED texts
    /\ UNCHANGED <<files, audit, writeLocks, locks, clock, tvars, existing,
                   settings, raw, lock, locals, started, okSaves>>

\* if img_path.exists(): img_text = ...; then the rules and return adapted
AdaptImage(t) ==
    /\ pc[t] = "adapt_image"
    /\ LET f == files[ContextPath("update_image_context", pid[t])]
       IN  IF f.kind \in {"absent", "ok"}
           THEN LET img == IF f.kind = "ok" THEN TextOf(f) ELSE {}
                IN  /\ texts' = [texts EXCEPT ![t].img_text = img]
                    /\ Return(t, Returned(Adapted(BaseWeights(arg[t]),
                                          texts[t].history_text, img)))
           ELSE /\ Return(t, Returned(BaseWeights(arg[t])))
                /\ UNCHANGED texts
    /\ UNCHANGED <<files, audit, writeLocks, locks, clock, tvars, existing,
                   settings, raw, lock, locals, started, okSaves>>

AdaptStep(t) == AdaptHistory(t) \/ AdaptImage(t)

\* ------------------------------------------------------------------
\* Thresholds as the recommender applies them
\* ------------------------------------------------------------------
DEFAULT_THRESHOLDS == ("low" :> 20) @@ ("medium" :> 50) @@ ("high" :> 75)

\* Recommender._merge_thresholds: the stored overrides on top of the defaults.
MergeThresholds(default, override) == MergeMap(default, NumericPart(override))

\* ------------------------------------------------------------------
\* Recommender: the rule engine.  Scores and thresholds are in hundredths;
\* age is in years and bmi in kg/m2, both whole numbers.  A Recommendation
\* is modelled by its code, severity, reasons and categories: its title and
\* text are fixed by its code.
\* ------------------------------------------------------------------
\* Python truth of a profile value: None (a missing key), 0 and "" are
\* false; NotANumber stands for a non-empty string such as "abc".
Truthy(v) == v # 0

Rec(c, sev, rs, cats) ==
    [code |-> c, severity |-> sev, reasons |-> rs, categories |-> cats]

SeverityFromScore(score, thresholds) ==
    IF score >= thresholds["high"] THEN "high"
    ELSE IF score >= thresholds["medium"] THEN "medium"
    ELSE "low"

\* A comparison with the low threshold of the class defaults.
AtLeastLowDefault(score, thresholds) == score >= DEFAULT_THRESHOLDS["low"]

\* if score >= thresholds["low"]: the test that opens each condition's rule
AtLeastLow(score, thresholds) == score >= thresholds["low"]

\* if d_score >= thresholds["low"]: R_DIAB_1, and R_DIAB_2 for medium, high
DiabetesRecs(risk_scores, profile, thresholds) ==
    LET d_score == Get(risk_scores, "diabetes", 0)
        sev == SeverityFromScore(d_score, thresholds)
        glucose == Get(profile, "last_fasting_glucose", 0)
    IN  IF AtLeastLow(d_score, thresholds)
        THEN <<Rec("R_DIAB_1", sev,
                   <<<<"diabetes_risk", d_score>>>>
                      \o (IF Truthy(glucose)
                          THEN <<<<"fasting_glucose", glucose>>>> ELSE <<>>),
                   <<"screening", "diet">>)>>
             \o (IF sev \in {"medium", "high"}
                 THEN <<Rec("R_DIAB_2", sev, <<<<"activity", 0>>>>,
                            <<"exercise">>)>>
                 ELSE <<>>)
        ELSE <<>>

\* int(profile.get("age")) in the hypertension rule stands outside every
\* try block: it raises ValueError for a value int() rejects.
HypertensionRaises(risk_scores, profile, thresholds) ==
    /\ AtLeastLow(Get(risk_scores, "hypertension", 0), thresholds)
    /\ Truthy(Get(profile, "age", 0))
    /\ ~IsNumeric(Get(profile, "age", 0))

\* A hypertension rule whose second recommendation has the code of the first.
HypertensionRecsSharedCode(risk_scores, profile, thresholds) ==
    LET h_score == Get(risk_scores, "hypertension", 0)
        sev == SeverityFromScore(h_score, thresholds)
        age == Get(profile, "age", 0)
    IN  IF AtLeastLow(h_score, thresholds)
        THEN <<Rec("R_HTN_1", sev, <<<<"hypertension_risk", h_score>>>>,
                   <<"monitoring", "diet">>)>>
             \o (IF Truthy(age) /\ IsNumeric(age) /\ age > 60
                    /\ h_score >= thresholds["medium"]
                 THEN <<Rec("R_HTN_1", "medium", <<<<"age_over_60", 0>>>>,
                            <<"screening">>)>>
                 ELSE <<>>)
        ELSE <<>>

\* if h_score >= thresholds["low"]: R_HTN_1, and R_HTN_2 (severity "medium"
\* as written in the code) for age > 60 and h_score >= thresholds["medium"]
HypertensionRecs(risk_scores, profile, thresholds) ==
    LET h_score == Get(risk_scores, "hypertension", 0)
        sev == SeverityFromScore(h_score, thresholds)
        age == Get(profile, "age", 0)
    IN  IF AtLeastLow(h_score, thresholds)
        THEN <<Rec("R_HTN_1", sev, <<<<"hypertension_risk", h_score>>>>,
                   <<"monitoring", "diet">>)>>
             \o (IF Truthy(age) /\ IsNumeric(age) /\ age > 60
                    /\ h_score >= thresholds["medium"]
                 THEN <<Rec("R_HTN_2", "medium", <<<<"age_over_60", 0>>>>,
                            <<"screening">>)>>
                 ELSE <<>>)
        ELSE <<>>

\* if c_score >= thresholds["low"]: R_CARD_1
CardiacRecs(risk_scores, symptoms, thresholds) ==
    LET c_score == Get(risk_scores, "cardiac", 0)
        sev == SeverityFromScore(c_score, thresholds)
    IN  IF AtLeastLow(c_score, thresholds)
        THEN <<Rec("R_CARD_1", sev,
                   <<<<"cardiac_risk", c_score>>>>
                      \o (IF symptoms # <<>>
                          THEN <<<<"symptoms", symptoms>>>> ELSE <<>>),
                   <<"urgent", "consult">>)>>
        ELSE <<>>

\* A BMI rule whose upper band starts above 30.
BmiRecsAbove30(profile) ==
    LET bmi == Get(profile, "bmi", 0)
    IN  IF ~Truthy(bmi) \/ ~IsNumeric(bmi) THEN <<>>
        ELSE IF Float(bmi) > 30
        THEN <<Rec("R_BMI_1", "medium", <<<<"bmi_obese", Float(bmi)>>>>,
                   <<"diet", "exercise">>)>>
        ELSE IF 25 <= Float(bmi) /\ Float(bmi) < 30
        THEN <<Rec("R_BMI_2", "low", <<<<"bmi_overweight", Float(bmi)>>>>,
                   <<"diet", "exercise">>)>>
        ELSE <<>>

\* try: if bmi: bmi_val = float(bmi) ...  except: skip the rule
BmiRecs(profile) ==
    LET bmi == Get(profile, "bmi", 0)
    IN  IF ~Truthy(bmi) \/ ~IsNumeric(bmi) THEN <<>>
        ELSE IF Float(bmi) >= 30
        THEN <<Rec("R_BMI_1", "medium", <<<<"bmi_obese", Float(bmi)>>>>,
                   <<"diet", "exercise">>)>>
        ELSE IF 25 <= Float(bmi) /\ Float(bmi) < 30
        THEN <<Rec("R_BMI_2", "low", <<<<"bmi_overweight", Float(bmi)>>>>,
                   <<"diet", "exercise">>)>>
        ELSE <<>>

\* try: if age and int(age) >= 50 ...  except: skip the rule
ScreeningRecs(profile) ==
    LET age == Get(profile, "age", 0)
    IN  IF Truthy(age) /\ IsNumeric(age) /\ age >= 50
        THEN <<Rec("R_SCREEN_1", "low", <<<<"age_50", age>>>>,
                   <<"screening">>)>>
        ELSE <<>>

\* ------------------------------------------------------------------
\* Recommender: _merge_duplicate_recs, _merge_and_rank, get_recommendations
\* ------------------------------------------------------------------
Range(s) == {s[i] : i \in 1..Len(s)}

Reverse(s) == [i \in 1..Len(s) |-> s[Len(s) + 1 - i]]

RECURSIVE SetToSeq(_)
SetToSeq(S) ==
    IF S = {} THEN <<>>
    ELSE LET x == CHOOSE y \in S : TRUE IN <<x>> \o SetToSeq(S \ {x})

\* list(set(xs)): the elements of xs once each, in the iteration order of
\* the set, which for strings follows their hashes: these differ from one
\* interpreter process to the next, so the order is one the inputs do not
\* determine.  Two orders stand for the orders a process may produce.
HashOrders == {"hash_a", "hash_b"}

ListOfSet(S, ord) ==
    IF ord = "hash_a" THEN SetToSeq(S) ELSE Reverse(SetToSeq(S))

severity_rank == ("low" :> 0) @@ ("medium" :> 1) @@ ("high" :> 2)

\* A merge that takes the severity of the later firing.
MergedRecLastSeverity(existing_rec, r, ord) ==
    Rec(r.code, r.severity,
        ListOfSet(Range(existing_rec.reasons \o r.reasons), ord),
        ListOfSet(Range(existing_rec.categories \o r.categories), ord))

\* The entry that replaces out[r.code] when r.code is in out already.
MergedRec(existing_rec, r, ord) ==
    Rec(r.code,
        IF severity_rank[r.severity] > severity_rank[existing_rec.severity]
        THEN r.severity ELSE existing_rec.severity,
        ListOfSet(Range(existing_rec.reasons \o r.reasons), ord),
        ListOfSet(Range(existing_rec.categories \o r.categories), ord))

\* One round of the loop: out is the dict as the list of its values, which
\* a dict keeps in the order in which the keys were first inserted.
MergeInto(out, r, ord) ==
    IF \E i \in 1..Len(out) : out[i].code = r.code
    THEN [i \in 1..Len(out) |->
            IF out[i].code = r.code THEN MergedRec(out[i], r, ord)
            ELSE out[i]]
    ELSE Append(out, r)

RECURSIVE MergeDuplicateRecsFrom(_, _, _)
MergeDuplicateRecsFrom(out, recs, ord) ==
    IF recs = <<>> THEN out
    ELSE MergeDuplicateRecsFrom(MergeInto(out, Head(recs), ord), Tail(recs),
                                ord)

MergeDuplicateRecs(recs, ord) == MergeDuplicateRecsFrom(<<>>, recs, ord)

\* The rules in the order of the code, then _merge_duplicate_recs; called
\* only for arguments for which HypertensionRaises is false.
RuleBasedRecommendations(risk_scores, symptoms, profile, thresholds, ord) ==
    MergeDuplicateRecs(
        DiabetesRecs(risk_scores, profile, thresholds)
          \o HypertensionRecs(risk_scores, profile, thresholds)
          \o CardiacRecs(risk_scores, symptoms, thresholds)
          \o BmiRecs(profile)
          \o ScreeningRecs(profile),
        ord)

\* _ml_scoring_hook returns {}.
MlScoringHook == EmptyMap

severity_map == ("low" :> 20) @@ ("medium" :> 60) @@ ("high" :> 90)

ml_weight == 40

\* base * (1.0 - ml_weight) + ml * ml_weight, in ten-thousandths
Composite(r, ml_scores) ==
    severity_map[r.severity] * (100 - ml_weight)
      + Get(ml_scores, r.code, 0) * ml_weight

\* An insertion that puts an entry before the entries of equal score.
InsertRankedBeforeEqual(sorted, r, ml_scores) ==
    LET n == Cardinality({i \in 1..Len(sorted) :
                 Composite(sorted[i], ml_scores) > Composite(r, ml_scores)})
    IN  SubSeq(sorted, 1, n) \o <<r>> \o SubSeq(sorted, n + 1, Len(sorted))

\* scored.sort(key=composite, reverse=True) is stable: an entry comes after
\* every entry of higher or equal score that preceded it in the list.
InsertRanked(sorted, r, ml_scores) ==
    LET n == Cardinality({i \in 1..Len(sorted) :
                 Composite(sorted[i], ml_scores) >= Composite(r, ml_scores)})
    IN  SubSeq(sorted, 1, n) \o <<r>> \o SubSeq(sorted, n + 1, Len(sorted))

RECURSIVE RankFrom(_, _, _)
RankFrom(sorted, recs, ml_scores) ==
    IF recs = <<>> THEN sorted
    ELSE RankFrom(InsertRanked(sorted, Head(recs), ml_scores), Tail(recs),
                  ml_scores)

MergeAndRank(recs, ml_scores) == RankFrom(<<>>, recs, ml_scores)

\* A truncation that keeps the last max_recs entries.
TopKFromEnd(merged, max_recs) ==
    SubSeq(merged,
           IF max_recs < Len(merged) THEN Len(merged) - max_recs + 1 ELSE 1,
           Len(merged))

\* merged[:max_recs] for max_recs >= 0
TopK(merged, max_recs) ==
    SubSeq(merged, 1, IF max_recs < Len(merged) THEN max_recs ELSE Len(merged))

\* get_recommendations once load_patient_settings has returned psettings;
\* the value is the list under "recommendations".
GetRecommendations(psettings, a, ord) ==
    LET thresholds == MergeThresholds(DEFAULT_THRESHOLDS,
                                      psettings["thresholds"])
    IN  IF HypertensionRaises(a.risk_scores, a.profile, thresholds)
        THEN Raised
        ELSE Returned(TopK(MergeAndRank(
                 RuleBasedRecommendations(a.risk_scores, a.symptoms,
                                          a.profile, thresholds, ord),
                 MlScoringHook), a.max_recs))

\* The result of explain when the code is not among the rule engine's.
NotFound == [error |-> "Recommendation code not found in rule engine"]

\* explain: the rules with DEFAULT_THRESHOLDS and no symptoms, then the
\* first recommendation with the code asked for.
Explain(a, ord) ==
    IF HypertensionRaises(a.risk_scores, a.profile, DEFAULT_THRESHOLDS)
    THEN Raised
    ELSE LET all_recs == RuleBasedRecommendations(a.risk_scores, <<>>,
                             a.profile, DEFAULT_THRESHOLDS, ord)
             hits == {i \in 1..Len(all_recs) : all_recs[i].code = a.code}
             r == all_recs[CHOOSE i \in hits : \A j \in hits : i <= j]
         IN  Returned(IF hits = {} THEN NotFound
                      ELSE [code |-> r.code, severity |-> r.severity,
                            reasons |-> r.reasons])

\* ------------------------------------------------------------------
\* Recommender: the calls and their steps
\* ------------------------------------------------------------------
\* What the steps of the recommender leave alone.
rvars == <<files, audit, writeLocks, locks, clock, tvars, existing, settings,
           raw, lock, texts, locals, started, okSaves>>

\* get_recommendations from the return of load_patient_settings on
Recommend(t) ==
    /\ pc[t] = "recommend"
    /\ \E ord \in HashOrders :
          Return(t, GetRecommendations(settings[t], arg[t], ord))
    /\ UNCHANGED rvars

ExplainCall(t) ==
    /\ pc[t] = "explain"
    /\ \E ord \in HashOrders : Return(t, Explain(arg[t], ord))
    /\ UNCHANGED rvars

\* _merge_duplicate_recs applied to a list of rule firings
MergeDuplicates(t) ==
    /\ pc[t] = "merge_duplicates"
    /\ \E ord \in HashOrders : Return(t, Returned(MergeDuplicateRecs(arg[t], ord)))
    /\ UNCHANGED rvars

RecStep(t) ==
    \/ LoadExists(t)
    \/ LoadRead(t)
    \/ Recommend(t)
    \/ ExplainCall(t)
    \/ MergeDuplicates(t)

Conditions == {"diabetes", "hypertension", "cardiac"}

\* Risk vectors: scores below, at and above the default and the stored
\* thresholds, and the vector without scores.
RiskVectors ==
    {EmptyMap} \cup
    { ("diabetes" :> d) @@ ("hypertension" :> h) @@ ("cardiac" :> c) :
        d \in {5, 20, 60, 80}, h \in {10, 30, 80}, c \in {5, 60} }

\* Profiles: empty, well-formed, and with an age or a bmi that is no number.
Profiles ==
    { EmptyMap,
      ("age" :> 65),
      ("age" :> 55) @@ ("bmi" :> 27),
      ("age" :> 65) @@ ("bmi" :> 32) @@ ("last_fasting_glucose" :> 110),
      ("age" :> NotANumber),
      ("age" :> 61) @@ ("bmi" :> NotANumber) }

SymptomLists == {<<>>, <<"chest pain">>}

\* max_recs: the default and a smaller value.
MaxRecsValues == {6, 2}

\* Every combination of the inputs, and two calls that ask for no entry.
GetRecommendationsCalls ==
    { CallOf("get_recommendations",
             [risk_scores |-> rs, symptoms |-> sy, profile |-> pr,
              max_recs |-> k], NoAuthor) :
        rs \in RiskVectors, sy \in SymptomLists, pr \in Profiles,
        k \in MaxRecsValues }
      \cup
    { CallOf("get_recommendations",
             [risk_scores |-> rs, symptoms |-> <<>>, profile |-> EmptyMap,
              max_recs |-> 0], NoAuthor) :
        rs \in { EmptyMap,
                 ("diabetes" :> 80) @@ ("hypertension" :> 80)
                    @@ ("cardiac" :> 60) } }

ExplainCalls ==
    { CallOf("explain", [code |-> c, risk_scores |-> rs, profile |-> pr],
             NoAuthor) :
        c \in {"R_DIAB_1", "R_HTN_2", "R_UNKNOWN"},
        rs \in { ("diabetes" :> 80) @@ ("hypertension" :> 10),
                 ("diabetes" :> 10) @@ ("hypertension" :> 60) },
        pr \in { EmptyMap, ("age" :> 65), ("age" :> NotANumber) } }

\* Rule firings, several of them with the same code.
Firings ==
    { Rec("R_DIAB_1", "low", <<<<"diabetes_risk", 30>>>>, <<"screening">>),
      Rec("R_DIAB_1", "high", <<<<"fasting_glucose", 110>>>>, <<"diet">>),
      Rec("R_DIAB_1", "medium",
          <<<<"diabetes_risk", 30>>, <<"activity", 0>>>>,
          <<"screening", "diet">>),
      Rec("R_HTN_1", "medium", <<<<"hypertension_risk", 60>>>>,
          <<"monitoring">>) }

FiringLists ==
    {<<>>} \cup {<<a>> : a \in Firings}
      \cup {<<a, b>> : a \in Firings, b \in Firings}
      \cup {<<a, b, c>> : a \in Firings, b \in Firings, c \in Firings}

MergeDuplicatesCalls ==
    { CallOf("_merge_duplicate_recs", fl, NoAuthor) : fl \in FiringLists }

\* The settings document that update_thresholds has stored for a patient
\* who had none.
StoredThresholds(thr) ==
    OkFile([DefaultSettings EXCEPT !["thresholds"] = thr])

\* The patient has no settings, unreadable ones, or stored threshold
\* overrides.
InitRecommender ==
    InitWith({ AbsentFile, CorruptFile,
               StoredThresholds(("low" :> 10) @@ ("medium" :> 30)
                                  @@ ("high" :> 50)) })

\* Calls of the recommender made one after the other.
CallRecommender(t) ==
    /\ \A u \in Threads : pc[u] = "idle"
    /\ \E c \in GetRecommendationsCalls \cup ExplainCalls
                  \cup MergeDuplicatesCalls : Call(t, c, "p1")

NextRecommender == \E t \in Threads : CallRecommender(t) \/ RecStep(t)

SpecRecommender == InitRecommender /\ [][NextRecommender]_vars

\* ------------------------------------------------------------------
\* The rule engine called by itself
\* ------------------------------------------------------------------
\* _rule_based_recommendations(risk_scores, symptoms, profile, thresholds):
\* the merged list of the firings, or the exception of the age conversion
\* of the hypertension rule.
Rules(t) ==
    /\ pc[t] = "rules"
    /\ \E ord \in HashOrders :
          Return(t, IF HypertensionRaises(arg[t].risk_scores,
                                         arg[t].profile, arg[t].thresholds)
                    THEN Raised
                    ELSE Returned(RuleBasedRecommendations(
                             arg[t].risk_scores, arg[t].symptoms,
                             arg[t].profile, arg[t].thresholds, ord)))
    /\ UNCHANGED rvars

\* Profiles with a bmi below, at and above the limits 25 and 30 of the
\* bands and an age below, at and above 50, either of them absent, zero or
\* no number.
BmiValues == {0, 24, 25, 29, 30, 32, NotANumber}

AgeValues == {0, 49, 50, 55, NotANumber}

BandProfiles ==
    { b @@ a : b \in {EmptyMap} \cup {("bmi" :> v) : v \in BmiValues},
               a \in {EmptyMap} \cup {("age" :> v) : v \in AgeValues} }

RulesCalls ==
    { CallOf("_rule_based_recommendations",
             [risk_scores |-> rs, symptoms |-> <<>>, profile |-> pr,
              thresholds |-> DEFAULT_THRESHOLDS], NoAuthor) :
        rs \in {EmptyMap, ("hypertension" :> 30)}, pr \in BandProfiles }

CallRules(t) ==
    /\ \A u \in Threads : pc[u] = "idle"
    /\ \E c \in RulesCalls : Call(t, c, "p1")

NextRules == \E t \in Threads : CallRules(t) \/ Rules(t)

SpecRules == Init /\ [][NextRules]_vars

\* ------------------------------------------------------------------
\* DashboardBuilder.build_patient_dashboard
\* ------------------------------------------------------------------
RECURSIVE SumValues(_)
SumValues(m) ==
    IF DOMAIN m = {} THEN 0
    ELSE LET k == CHOOSE x \in DOMAIN m : TRUE
         IN  m[k] + SumValues([j \in DOMAIN m \ {k} |-> m[j]])

\* np.mean(list(risks.values())) if risks else 0.0, in ten-thousandths
\* (the values are hundredths), rounded down.
MeanRisk(risks) ==
    IF DOMAIN risks = {} THEN 0
    ELSE (SumValues(risks) * 100) \div Cardinality(DOMAIN risks)

\* A status whose first band includes the mean 0.3.
ComputeHealthStatusInclusive(risks) ==
    IF MeanRisk(risks) <= 3000 THEN "Healthy"
    ELSE IF MeanRisk(risks) <= 6000 THEN "Moderate Risk"
    ELSE "High Risk"

\* _compute_health_status
ComputeHealthStatus(risks) ==
    LET avg_risk == MeanRisk(risks)
    IN  IF avg_risk < 3000 THEN "Healthy"
        ELSE IF avg_risk < 6000 THEN "Moderate Risk"
        ELSE "High Risk"

\* format_risk_summary: one line per disease with its score, or the
\* sentence for no disease; the lines are kept as a set, without the order
\* the sort gives them.
FormatRiskSummary(risk_scores) ==
    IF DOMAIN risk_scores = {} THEN "No disease risk detected."
    ELSE {<<k, risk_scores[k]>> : k \in DOMAIN risk_scores}

\* The dashboard without its timestamp; the optional arguments are left at
\* their defaults.
BuildPatientDashboard(patient_id, risks, recommendations, summary_text) ==
    [ patient_id |-> patient_id,
      overall_health_status |-> ComputeHealthStatus(risks),
      disease_risk_summary |-> FormatRiskSummary(risks),
      ai_summary |-> summary_text,
      personalized_recommendations |-> recommendations,
      fusion_sources |-> EmptyMap,
      personalization_metadata |-> EmptyMap,
      blockchain_reference |-> "None" ]

BuildDashboard(t) ==
    /\ pc[t] = "build_dashboard"
    /\ Return(t, Returned(BuildPatientDashboard(pid[t], arg[t].risks,
                              arg[t].recommendations, arg[t].summary_text)))
    /\ UNCHANGED rvars

\* Risk vectors with no, one, two and three values, below, at and above
\* the limits 0.3 and 0.6.
RiskValues == {0, 29, 30, 31, 60, 90}

DashboardRisks ==
    UNION { [C -> RiskValues] : C \in SUBSET Conditions }

DashboardCalls ==
    { CallOf("build_patient_dashboard",
             [risks |-> r, recommendations |-> EmptyMap,
              summary_text |-> "summary"], NoAuthor) :
        r \in DashboardRisks }

CallDashboard(t) ==
    /\ \A u \in Threads : pc[u] = "idle"
    /\ \E c \in DashboardCalls : Call(t, c, "p1")

NextDashboard == \E t \in Threads : CallDashboard(t) \/ BuildDashboard(t)

SpecDashboard == Init /\ [][NextDashboard]_vars

\* Two requests for recommendations for one patient, and a change of the
\* patient's thresholds.
PairCalls ==
    { CallOf("get_recommendations",
             [risk_scores |-> ("diabetes" :> 60) @@ ("hypertension" :> 80),
              symptoms |-> <<>>, profile |-> ("age" :> 65) @@ ("bmi" :> 32),
              max_recs |-> 6], NoAuthor),
      CallOf("get_recommendations",
             [risk_scores |-> ("cardiac" :> 30),
              symptoms |-> <<"chest pain">>, profile |-> EmptyMap,
              max_recs |-> 6], NoAuthor),
      CallOf("update_thresholds", ("medium" :> 70), "clinician") }

CallPair(t) == \E c \in PairCalls : Call(t, c, "p1")

NextRecommenderPair ==
    \E t \in Threads : CallPair(t) \/ Step(t) \/ Recommend(t)

\* A request for recommendations and a request for the explanation of one
\* of them, for one patient, with the same risk scores and profile.
ExplainPairInputs ==
    { [risk_scores |-> rs, profile |-> pr] :
        rs \in {("diabetes" :> 60), ("diabetes" :> 15)},
        pr \in {EmptyMap, ("age" :> 65)} }

ExplainPairCalls ==
    { CallOf("get_recommendations",
             [risk_scores |-> i.risk_scores, symptoms |-> <<>>,
              profile |-> i.profile, max_recs |-> 6], NoAuthor) :
        i \in ExplainPairInputs }
      \cup
    { CallOf("explain",
             [code |-> c, risk_scores |-> i.risk_scores,
              profile |-> i.profile], NoAuthor) :
        c \in {"R_DIAB_1", "R_SCREEN_1", "R_UNKNOWN"},
        i \in ExplainPairInputs }

CallExplainPair(t) == \E c \in ExplainPairCalls : Call(t, c, "p1")

NextExplainPair ==
    \E t \in Threads :
        \/ CallExplainPair(t)
        \/ LoadExists(t)
        \/ LoadRead(t)
        \/ Recommend(t)
        \/ ExplainCall(t)

SpecExplainPair == InitRecommender /\ [][NextExplainPair]_vars

SpecRecommenderPair == InitRecommender /\ [][NextRecommenderPair]_vars

\* ------------------------------------------------------------------
\* FusionLayer.combine_predictions.  app/services/fusion_layer.py is not
\* among the sources at hand; the operator follows section 4.3 of the
\* specification.  Weights and probabilities are in hundredths, the
\* fused values in ten-thousandths, so that the products are exact.
\* ------------------------------------------------------------------
\* The contribution of one modality to key k: its probability, 0.0 when the
\* map lacks the key or holds a value that is no number.
Contribution(probs, k) ==
    IF k \in DOMAIN probs /\ IsNumeric(probs[k]) THEN probs[k] ELSE 0

\* Clamp into [0, 1].
Clamp(v) == IF v < 0 THEN 0 ELSE IF v > 10000 THEN 10000 ELSE v

\* A fusion that does not clamp the weighted sum.
CombinePredictionsUnclamped(tabular_probs, text_probs, image_probs, weights) ==
    [k \in DOMAIN tabular_probs \cup DOMAIN text_probs \cup DOMAIN image_probs
        |-> weights["tabular"] * Contribution(tabular_probs, k)
              + weights["text"] * Contribution(text_probs, k)
              + weights["image"] * Contribution(image_probs, k)]

CombinePredictions(tabular_probs, text_probs, image_probs, weights) ==
    [k \in DOMAIN tabular_probs \cup DOMAIN text_probs \cup DOMAIN image_probs
        |-> Clamp(weights["tabular"] * Contribution(tabular_probs, k)
                    + weights["text"] * Contribution(text_probs, k)
                    + weights["image"] * Contribution(image_probs, k))]

Combine(t) ==
    /\ pc[t] = "combine"
    /\ Return(t, Returned(CombinePredictions(arg[t].tabular_probs,
                              arg[t].text_probs, arg[t].image_probs,
                              arg[t].weights)))
    /\ UNCHANGED rvars

\* Modality maps with shared and separate keys, empty maps and a value
\* that is no number; weights that sum to less and to more than 1.
FusionCalls ==
    { CallOf("combine_predictions",
             [tabular_probs |-> tp, text_probs |-> xp, image_probs |-> ip,
              weights |-> w], NoAuthor) :
        tp \in { EmptyMap, ("diabetes" :> 60),
                 ("diabetes" :> 60) @@ ("cardiac" :> 90) },
        xp \in { EmptyMap, ("diabetes" :> 40), ("hypertension" :> 80),
                 ("diabetes" :> NotANumber) },
        ip \in { EmptyMap, ("cardiac" :> 70) },
        w \in { ("tabular" :> 50) @@ ("text" :> 50) @@ ("image" :> 20),
                DEFAULT_WEIGHTS,
                ("tabular" :> 200) @@ ("text" :> 100) @@ ("image" :> 100),
                ("tabular" :> -50) @@ ("text" :> 30) @@ ("image" :> 20) } }

\* Fusions made one after the other.
CallFusion(t) ==
    /\ \A u \in Threads : pc[u] = "idle"
    /\ \E c \in FusionCalls : Call(t, c, "p1")

NextFusion == \E t \in Threads : CallFusion(t) \/ Combine(t)

SpecFusion == Init /\ [][NextFusion]_vars

\* ------------------------------------------------------------------
\* predict_risk: the inference request.  The adapters are the outside
\* world: a call of one returns its output ("ok"), raises ("failed") or
\* does not return within INFERENCE_TIMEOUT_SEC ("timeout").
\* ------------------------------------------------------------------
AdapterOutcomes == {"ok", "failed", "timeout"}

\* An HTTPException, or an exception that no handler catches and the
\* framework answers with status 500.
ErrorResponse(code, text) ==
    [raised |-> TRUE, value |-> [status |-> code, detail |-> text]]

\* What the adapters return when they return.
DiseaseProbs ==
    ("diabetes" :> 60) @@ ("hypertension" :> 30) @@ ("cardiac" :> 10)

Entities == <<"chest pain">>

ImageProbs == ("cardiac" :> 70)

\* {k: 0.0 for k in (disease_probs.keys() if disease_probs else [...])}
ZeroMap(disease_probs) ==
    [k \in (IF disease_probs # EmptyMap THEN DOMAIN disease_probs
            ELSE Conditions) |-> 0]

\* processed = await _run_in_executor(preprocess_patient_data, ...); every
\* exception becomes HTTPException(500, "Preprocessing error").
Preprocess(t) ==
    /\ pc[t] = "preprocess"
    /\ \E o \in AdapterOutcomes :
          IF o = "ok"
          THEN /\ Goto(t, "models")
               /\ UNCHANGED <<result, outcome, locals>>
          ELSE /\ locals' = [locals EXCEPT ![t].failed = {"preprocess"}]
               /\ Return(t, ErrorResponse(500, "Preprocessing error"))
    /\ UNCHANGED <<files, audit, writeLocks, locks, clock, tvars, existing,
                   settings, raw, lock, texts, started, okSaves>>

\* The three tasks run through _run_in_executor, which raises
\* HTTPException 504 on a timeout and 500 on any other exception; gather
\* passes the exception on, and the except branch answers with
\* HTTPException(500, "Inference error").
RunModels(t) ==
    /\ pc[t] = "models"
    /\ \E d \in AdapterOutcomes, s \in AdapterOutcomes, m \in AdapterOutcomes :
          LET failed == {x \in {"tabular", "text", "summary"} :
                           \/ x = "tabular" /\ d # "ok"
                           \/ x = "text" /\ s # "ok"
                           \/ x = "summary" /\ m # "ok"}
          IN  IF failed = {}
              THEN /\ locals' = [locals EXCEPT
                                   ![t].disease_probs = DiseaseProbs,
                                   ![t].symptoms = Entities]
                   /\ Goto(t, "load_exists")
                   /\ UNCHANGED <<result, outcome>>
              ELSE /\ locals' = [locals EXCEPT ![t].failed = failed]
                   /\ Return(t, ErrorResponse(500, "Inference error"))
    /\ UNCHANGED <<files, audit, writeLocks, locks, clock, tvars, existing,
                   settings, raw, lock, texts, started, okSaves>>

\* The effective weights of section 4.2 of the specification: the defaults,
\* the patient's stored weights over them, then the context rules.
EffectiveWeights(base_weights, stored, history_text, img_text) ==
    Adapted(MergeMap(base_weights, stored), history_text, img_text)

\* weights = _personalization.apply_personalization(DEFAULT_WEIGHTS, id).
\* The class PersonalizationEngine at hand defines no apply_personalization,
\* so the call raises AttributeError, which nothing catches; with a
\* definition supplied from elsewhere it returns the effective weights.
\* Then predict_conditions_from_symptoms, which SymptomModel does not
\* define either: the except branch sets the three zero probabilities.
ApplyPersonalization(t) ==
    /\ pc[t] = "apply_personalization"
    /\ \/ /\ locals' = [locals EXCEPT
                          ![t].weights = EffectiveWeights(DEFAULT_WEIGHTS,
                              settings[t]["weights"],
                              TextOf(files[ContextPath("update_history_context",
                                                       pid[t])]),
                              TextOf(files[ContextPath("update_image_context",
                                                       pid[t])])),
                          ![t].text_condition_probs =
                              [k \in Conditions |-> 0]]
          /\ Goto(t, "image")
          /\ UNCHANGED <<result, outcome>>
       \/ /\ Return(t, ErrorResponse(500, "Internal Server Error"))
          /\ UNCHANGED locals
    /\ UNCHANGED <<files, audit, writeLocks, locks, clock, tvars, existing,
                   settings, raw, lock, texts, started, okSaves>>

\* if request.image_uri: image_probs = await _run_in_executor(predict_image)
\* else zeros; an exception (a timeout too) gives the zeros as well.
ImageModel(t) ==
    /\ pc[t] = "image"
    /\ \E o \in AdapterOutcomes :
          /\ arg[t].image_uri = "" => o = "ok"
          /\ locals' = [locals EXCEPT
                          ![t].image_probs =
                              IF arg[t].image_uri # "" /\ o = "ok"
                              THEN ImageProbs
                              ELSE ZeroMap(locals[t].disease_probs),
                          ![t].failed = IF o = "ok" THEN @ ELSE {"image"}]
    /\ Goto(t, "fuse")
    /\ UNCHANGED <<files, audit, writeLocks, locks, clock, tvars, existing,
                   settings, raw, lock, texts, result, outcome, started,
                   okSaves>>

\* fused = _fusion_layer.combine_predictions(...)
Fuse(t) ==
    /\ pc[t] = "fuse"
    /\ locals' = [locals EXCEPT ![t].fused =
                    CombinePredictions(locals[t].disease_probs,
                                       locals[t].text_condition_probs,
                                       locals[t].image_probs,
                                       locals[t].weights)]
    /\ Goto(t, "recommender")
    /\ UNCHANGED <<files, audit, writeLocks, locks, clock, tvars, existing,
                   settings, raw, lock, texts, result, outcome, started,
                   okSaves>>

\* The fused values, in ten-thousandths, as the scores in hundredths that
\* the rules compare with the thresholds.
AsScores(fused) == [k \in DOMAIN fused |-> fused[k] \div 100]

\* try: recommendations_result = get_recommendations(...); suggestions =
\* [...]  except: suggestions = [], and recommendations_result stays
\* unbound.  get_recommendations loads the settings itself.  The failure of
\* the recommender is noted with those of the adapters.
RecommenderCall(t) ==
    /\ pc[t] = "recommender"
    /\ \E ord \in HashOrders :
          LET r == GetRecommendations(
                       SettingsIn(files[WeightsPath(pid[t])]),
                       [risk_scores |-> AsScores(locals[t].fused),
                        symptoms |-> locals[t].symptoms,
                        profile |-> settings[t]["profile"],
                        max_recs |-> 6], ord)
          IN  locals' = [locals EXCEPT
                  ![t].recommendations_result =
                      IF r.raised THEN @ ELSE "bound",
                  ![t].suggestions =
                      IF r.raised THEN <<>>
                      ELSE [i \in 1..Len(r.value) |-> r.value[i].code],
                  ![t].failed =
                      IF r.raised THEN @ \cup {"recommender"} ELSE @]
    /\ Goto(t, "dashboard")
    /\ UNCHANGED <<files, audit, writeLocks, locks, clock, tvars, existing,
                   settings, raw, lock, texts, result, outcome, started,
                   okSaves>>

\* build_patient_dashboard(recommendations=recommendations_result.get(...)):
\* reading the unbound name raises; otherwise the response is returned.
Respond(t) ==
    /\ pc[t] = "dashboard"
    /\ Return(t, IF locals[t].recommendations_result = "unbound"
                 THEN ErrorResponse(500, "Internal Server Error")
                 ELSE Returned([status |-> 200,
                                risk_scores |-> locals[t].fused,
                                preventive_suggestions |->
                                    locals[t].suggestions]))
    /\ UNCHANGED <<files, audit, writeLocks, locks, clock, tvars, existing,
                   settings, raw, lock, texts, locals, started, okSaves>>

PredictStep(t) ==
    \/ Preprocess(t)
    \/ RunModels(t)
    \/ LoadExists(t)
    \/ LoadRead(t)
    \/ ApplyPersonalization(t)
    \/ ImageModel(t)
    \/ Fuse(t)
    \/ RecommenderCall(t)
    \/ Respond(t)

\* Requests with and without an image.
PredictCalls ==
    { CallOf("predict_risk", [image_uri |-> u], NoAuthor) :
        u \in {"", "scan.png"} }

\* Requests handled one after the other.
CallPredict(t) ==
    /\ \A u \in Threads : pc[u] = "idle"
    /\ \E c \in PredictCalls : Call(t, c, "p1")

NextPredict == \E t \in Threads : CallPredict(t) \/ PredictStep(t)

SpecPredict == InitRecommender /\ [][NextPredict]_vars

\* The settings document that update_thresholds and update_profile have
\* stored for a patient: a low threshold of 0.1 and an age that is no
\* number.
StoredProfile ==
    OkFile([DefaultSettings EXCEPT !["thresholds"] = ("low" :> 10),
                                   !["profile"] = ("age" :> NotANumber)])

\* The requests for a patient without settings or with that document.
InitPredictStored == InitWith({AbsentFile, StoredProfile})

SpecPredictStored == InitPredictStored /\ [][NextPredict]_vars

\* The operations that read a patient's settings or context, next to an
\* update of the settings.
ReaderOps ==
    {"load_patient_settings", "auto_adapt_weights_from_context",
     "get_recommendations", "explain"}

ReaderCalls ==
    { CallOf("load_patient_settings", EmptyMap, NoAuthor),
      CallOf("auto_adapt_weights_from_context", EmptyMap, NoAuthor),
      CallOf("get_recommendations",
             [risk_scores |-> ("diabetes" :> 80), symptoms |-> <<>>,
              profile |-> ("age" :> 55), max_recs |-> 6], NoAuthor),
      CallOf("explain",
             [code |-> "R_DIAB_1", risk_scores |-> ("diabetes" :> 80),
              profile |-> EmptyMap], NoAuthor),
      CallOf("update_weights", ("tabular" :> 90), "clinician") }

CallReaders(t) == \E c \in ReaderCalls : Call(t, c, "p1")

NextReaders ==
    \E t \in Threads :
        \/ CallReaders(t)
        \/ Step(t)
        \/ Recommend(t)
        \/ ExplainCall(t)
        \/ AdaptStep(t)

SpecReaders == Init /\ [][NextReaders]_vars

\* ------------------------------------------------------------------
\* The weight adapter after updates of the weights and of the context
\* ------------------------------------------------------------------
\* base_weights of auto_adapt_weights_from_context: none, and maps whose
\* disease, symptom and image weights are near the upper bound 2.0, as an
\* earlier adaptation returns them.
AdaptBases ==
    { EmptyMap, ("disease" :> 180), ("symptom" :> 190), ("image" :> 190) }

\* An update of the stored weights, snapshots with and without the words
\* the rules look for, and adaptations.
AdaptCalls ==
    { CallOf("update_weights", ("tabular" :> 90), "clinician"),
      CallOf("update_history_context", "visit-1", NoAuthor),
      CallOf("update_history_context", "Chronic cough", NoAuthor),
      CallOf("update_history_context", "inflammation, long-term", NoAuthor),
      CallOf("update_image_context", "retina scan", NoAuthor) }
      \cup
    { CallOf("auto_adapt_weights_from_context", b, NoAuthor) :
        b \in AdaptBases }

\* Calls made one after the other.
CallAdapt(t) ==
    /\ \A u \in Threads : pc[u] = "idle"
    /\ \E c \in AdaptCalls : Call(t, c, "p1")

NextAdapt ==
    \E t \in Threads :
        \/ CallAdapt(t)
        \/ Step(t)
        \/ CtxStep(t)
        \/ AdaptStep(t)

SpecAdapt == Init /\ [][NextAdapt]_vars

\* ==================================================================
\* Properties of the settings store
\* ==================================================================
StoredSettings(p) == files[WeightsPath(p)]

\* The thread is inside save_patient_settings' "with lock:" block.
InCritical(t) ==
    pc[t] \in {"mkstemp", "dump", "move", "save_except", "audit", "release"}

\* The thread runs an update_* call and is between the start of its load
\* and the end of its save.
InLoadToSave(t) ==
    op[t] \in UpdateOps /\ pc[t] \notin {"idle", "load_exists"}

\* load_patient_settings has returned to the thread (to the request handler,
\* or to the update_* method that called it).
LoadReturned(t) ==
    \/ op[t] = "load_patient_settings" /\ pc[t] = "idle" /\ outcome[t] = "ok"
    \/ op[t] \in UpdateOps /\ pc[t] = "merge"

\* C1: when two update_weights calls for the same patient with disjoint key
\* sets ran concurrently and both have returned, the stored weights hold the
\* value written by each of them.
C1_NoLostWeightUpdate ==
    \A t, u \in Threads :
        ( /\ t # u
          /\ started = 2
          /\ pc[t] = "idle" /\ pc[u] = "idle"
          /\ op[t] = "update_weights" /\ op[u] = "update_weights"
          /\ outcome[t] = "ok" /\ outcome[u] = "ok"
          /\ pid[t] = pid[u]
          /\ DOMAIN arg[t] \cap DOMAIN arg[u] = {} )
        => /\ StoredSettings(pid[t]).kind = "ok"
           /\ \A k \in DOMAIN NumericPart(arg[t]) :
                 StoredSettings(pid[t]).doc["weights"][k] = Float(arg[t][k])

\* C2: at no time are two update operations for the same patient both
\* between the start of their load and the end of their save.
C2_UpdatesSerialized ==
    \A t, u \in Threads :
        (t # u /\ pid[t] = pid[u]) => ~(InLoadToSave(t) /\ InLoadToSave(u))

\* C3: an update for one patient never waits for an update of another
\* patient: a thread that finds its lock taken finds it taken by a call for
\* the same patient, and its lock is free whenever no call for its patient
\* is inside save's critical section.
C3_WaitsOnlySamePatient ==
    \A t \in Threads :
        pc[t] = "acquire" =>
          /\ locks[lock[t]] # NoThread => pid[locks[lock[t]]] = pid[t]
          /\ (\A u \in Threads : InCritical(u) => pid[u] # pid[t])
                => locks[lock[t]] = NoThread

\* C3 witness: two calls for different patients are inside the critical
\* section of save at the same time.
C3_Witness ==
    \E t, u \in Threads :
        /\ pid[t] # pid[u]
        /\ InCritical(u) /\ pc[u] \in {"dump", "move"}
        /\ InCritical(t) /\ pc[t] = "release"

\* C4: the settings document is never visible half-written: the file at
\* the settings path is never a partial document, and no load reads one (so
\* none falls back to the defaults because of one).
C4_NoPartialDocument ==
    /\ \A p \in Patients : StoredSettings(p).kind # "partial"
    /\ \A t \in Threads : raw[t].kind # "partial"
    /\ \A t \in Threads :
          (LoadReturned(t) /\ raw[t].kind = "ok")
             => \A k \in DOMAIN raw[t].doc : settings[t][k] = raw[t].doc[k]

\* C4 witness: a load that ran while a save for the same patient was in
\* progress has returned the complete document that save wrote.
C4_Witness ==
    \E t, u \in Threads :
        /\ t # u /\ pid[t] = pid[u]
        /\ op[t] = "load_patient_settings" /\ LoadReturned(t)
        /\ raw[t].kind = "ok"
        /\ op[u] = "save_patient_settings" /\ InCritical(u)
        /\ raw[t].doc = arg[u].doc

\* The audit records of a patient: the rows of history.csv but the header.
IsRecord(row) == ~row.hdr
AuditRecords(p) == SelectSeq(audit[p].rows, IsRecord)

\* C5: when no call is running, the number of audit records of a patient
\* equals the number of saves for that patient that returned normally.
C5_OneRecordPerSave ==
    (\A t \in Threads : pc[t] = "idle")
       => \A p \in Patients : Len(AuditRecords(p)) = okSaves[p]

\* C6: an I/O error while save writes the settings document ends the call
\* (save, and the update_* call that made it) by raising.
C6_WriteErrorRaised ==
    [][\A t \in Threads :
          (pc[t] = "save_except" /\ pc'[t] # "save_except")
             => (pc'[t] = "idle" /\ outcome'[t] = "raised")]_vars

\* C6 witness: an update_* call has ended by raising.
C6_Witness ==
    \E t \in Threads :
        op[t] \in UpdateOps /\ pc[t] = "idle" /\ outcome[t] = "raised"

Ordered(th) == th["low"] < th["medium"] /\ th["medium"] < th["high"]

\* C8: no thresholds that break low < medium < high are ever persisted: the
\* stored thresholds of every patient, applied over the defaults, are ordered.
C8_ThresholdsOrdered ==
    \A p \in Patients :
        StoredSettings(p).kind = "ok" =>
            Ordered(MergeThresholds(DEFAULT_THRESHOLDS,
                                    GetMap(StoredSettings(p).doc, "thresholds")))

\* ==================================================================
\* Properties of the context documents
\* ==================================================================
\* C9: in a sequential series of context updates, the call that has just
\* returned added exactly one entry to its context mapping and left every
\* earlier entry in place with its value.
C9_ContextAppendOnly ==
    \A t \in Threads :
        (pc[t] = "idle" /\ op[t] \in ContextOps) =>
            LET now == Entries(files[ContextPath(op[t], pid[t])])
            IN /\ Cardinality(DOMAIN now) = Cardinality(DOMAIN before[t]) + 1
               /\ \A k \in DOMAIN before[t] :
                     k \in DOMAIN now /\ now[k] = before[t][k]

\* C10: when two concurrent updates of the same context mapping have both
\* returned without any exception, the mapping holds the entries of both.
C10_BothEntriesKept ==
    \A t, u \in Threads :
        ( /\ t # u
          /\ started = 2
          /\ pc[t] = "idle" /\ pc[u] = "idle"
          /\ op[t] \in ContextOps /\ op[u] = op[t] /\ pid[u] = pid[t]
          /\ outcome[t] = "ok" /\ outcome[u] = "ok" )
        => LET now == Entries(files[ContextPath(op[t], pid[t])])
           IN \E k1, k2 \in DOMAIN now :
                 k1 # k2 /\ now[k1] = arg[t] /\ now[k2] = arg[u]

\* The keys of sub-map sub that differ between the settings old and new.
ChangedKeys(old, new, sub) ==
    { k \in DOMAIN old[sub] \cup DOMAIN new[sub] :
        \/ k \notin DOMAIN old[sub]
        \/ k \notin DOMAIN new[sub]
        \/ old[sub][k] # new[sub][k] }

\* C11: an update_weights, update_thresholds or update_profile call that
\* has returned has changed, in the patient's stored settings, only keys
\* that its partial update names, all of them in its own sub-map, and each
\* value it accepted is the stored value of its key; the rest of that
\* sub-map and the two other sub-maps are as they were when it was called.
C11_UpdateChangesOnlyNamedKeys ==
    \A t \in Threads :
        (pc[t] = "idle" /\ op[t] \in UpdateOps /\ outcome[t] = "ok") =>
            LET new == SettingsIn(StoredSettings(pid[t]))
                own == SubMapOf(op[t])
            IN  /\ \A sub \in SettingsKeys \ {own} :
                       ChangedKeys(before[t], new, sub) = {}
                /\ ChangedKeys(before[t], new, own) \subseteq DOMAIN arg[t]
                /\ \A k \in DOMAIN arg[t] :
                       (op[t] = "update_profile" \/ IsNumeric(arg[t][k]))
                           => /\ k \in DOMAIN new[own]
                              /\ new[own][k] = arg[t][k]

\* An update_thresholds call has returned for a patient whose stored
\* weights were not the defaults, and it has changed a threshold.
C11_Witness ==
    \E t \in Threads :
        /\ pc[t] = "idle" /\ op[t] = "update_thresholds" /\ outcome[t] = "ok"
        /\ before[t]["weights"] # DEFAULT_WEIGHTS
        /\ ChangedKeys(before[t], SettingsIn(StoredSettings(pid[t])),
                       "thresholds") # {}

\* ==================================================================
\* Properties of the recommender
\* ==================================================================
\* get_recommendations has returned a list to the thread.
Recommended(t) ==
    pc[t] = "idle" /\ op[t] = "get_recommendations" /\ outcome[t] = "ok"

\* The thresholds in force for a patient: the stored ones over the defaults.
EffectiveThresholds(p) ==
    MergeThresholds(DEFAULT_THRESHOLDS,
                    SettingsIn(StoredSettings(p))["thresholds"])

Codes(recs) == {recs[i].code : i \in 1..Len(recs)}

\* C15: a get_recommendations call with the default max_recs returns
\* R_DIAB_1 (R_HTN_1, R_CARD_1) if and only if the diabetes (hypertension,
\* cardiac) score is at least the patient's effective low threshold, and
\* R_DIAB_2 and R_HTN_2 only then; for the scores 0.8 / 0.1 / 0.05, an empty
\* profile and the default thresholds it returns R_DIAB_1 and R_DIAB_2,
\* both of severity high, and nothing else.
C15_EmittedIffAtLeastLow ==
    \A t \in Threads :
        (Recommended(t) /\ arg[t].max_recs = 6) =>
            LET recs == result[t].value
                codes == Codes(recs)
                low == EffectiveThresholds(pid[t])["low"]
                score(c) == Get(arg[t].risk_scores, c, 0)
            IN  /\ "R_DIAB_1" \in codes <=> score("diabetes") >= low
                /\ "R_DIAB_2" \in codes => score("diabetes") >= low
                /\ "R_HTN_1" \in codes <=> score("hypertension") >= low
                /\ "R_HTN_2" \in codes => score("hypertension") >= low
                /\ "R_CARD_1" \in codes <=> score("cardiac") >= low
                /\ ( /\ arg[t].risk_scores = ("diabetes" :> 80)
                          @@ ("hypertension" :> 10) @@ ("cardiac" :> 5)
                     /\ arg[t].profile = EmptyMap
                     /\ EffectiveThresholds(pid[t]) = DEFAULT_THRESHOLDS )
                   => /\ codes = {"R_DIAB_1", "R_DIAB_2"}
                      /\ Len(recs) = 2
                      /\ \A i \in 1..2 : recs[i].severity = "high"

\* A call has returned R_HTN_1 for a hypertension score that is below the
\* default low threshold and at the patient's stored one.
C15_Witness ==
    \E t \in Threads :
        /\ Recommended(t) /\ arg[t].max_recs = 6
        /\ "R_HTN_1" \in Codes(result[t].value)
        /\ Get(arg[t].risk_scores, "hypertension", 0) < DEFAULT_THRESHOLDS["low"]

\* The score that triggers a recommendation of the code.
TriggerOf(code) ==
    CASE code \in {"R_DIAB_1", "R_DIAB_2"} -> "diabetes"
      [] code \in {"R_HTN_1", "R_HTN_2"} -> "hypertension"
      [] OTHER -> "cardiac"

\* C16: every R_DIAB_1, R_DIAB_2, R_HTN_1, R_HTN_2 and R_CARD_1 entry that
\* get_recommendations returns has the severity that its condition's score
\* has under the patient's effective thresholds: high for a score that is
\* at least high, else medium for one at least medium, else low.
C16_SeverityFromPatientThresholds ==
    \A t \in Threads :
        Recommended(t) =>
            LET recs == result[t].value
                th == EffectiveThresholds(pid[t])
            IN  \A i \in 1..Len(recs) :
                    recs[i].code \in {"R_DIAB_1", "R_DIAB_2", "R_HTN_1",
                                      "R_HTN_2", "R_CARD_1"}
                    => LET score == Get(arg[t].risk_scores,
                                        TriggerOf(recs[i].code), 0)
                       IN  recs[i].severity =
                             IF score >= th["high"] THEN "high"
                             ELSE IF score >= th["medium"] THEN "medium"
                             ELSE "low"

\* _merge_duplicate_recs has returned to the thread.
Merged(t) ==
    pc[t] = "idle" /\ op[t] = "_merge_duplicate_recs" /\ outcome[t] = "ok"

\* The firings of a list that have the code.
FiringsOf(fl, code) == {i \in 1..Len(fl) : fl[i].code = code}

\* C17: a list that get_recommendations returns has no two entries with
\* the same code; and the list that _merge_duplicate_recs makes of a list
\* of rule firings has, for every code among the firings, exactly one
\* entry, whose reasons and categories are the union of the reasons and
\* categories of the firings with that code, each once, and whose severity
\* is the highest of theirs.
C17_OneEntryPerCode ==
    \A t \in Threads :
        /\ Recommended(t) =>
              \A i, j \in 1..Len(result[t].value) :
                  result[t].value[i].code = result[t].value[j].code => i = j
        /\ Merged(t) =>
              LET fl == arg[t]
                  out == result[t].value
              IN  /\ Codes(out) = Codes(fl)
                  /\ \A i, j \in 1..Len(out) :
                         out[i].code = out[j].code => i = j
                  /\ \A i \in 1..Len(out) :
                       LET fs == FiringsOf(fl, out[i].code)
                       IN  /\ Range(out[i].reasons) =
                                UNION {Range(fl[k].reasons) : k \in fs}
                           /\ Range(out[i].categories) =
                                UNION {Range(fl[k].categories) : k \in fs}
                           /\ \E k \in fs : out[i].severity = fl[k].severity
                           /\ \A k \in fs : severity_rank[out[i].severity]
                                              >= severity_rank[fl[k].severity]

\* _merge_duplicate_recs has merged firings of one code of which a later
\* one had a lower severity than an earlier one.
C17_Witness ==
    \E t \in Threads :
        /\ Merged(t)
        /\ \E i, j \in 1..Len(arg[t]) :
              /\ i < j
              /\ arg[t][i].code = arg[t][j].code
              /\ severity_rank[arg[t][j].severity]
                    < severity_rank[arg[t][i].severity]
              /\ arg[t][i].reasons # arg[t][j].reasons

\* The place of a code in the order in which the rules are evaluated.
RuleOrder(code) ==
    CASE code = "R_DIAB_1" -> 1
      [] code = "R_DIAB_2" -> 2
      [] code = "R_HTN_1" -> 3
      [] code = "R_HTN_2" -> 4
      [] code = "R_CARD_1" -> 5
      [] code = "R_BMI_1" -> 6
      [] code = "R_BMI_2" -> 7
      [] OTHER -> 8

\* C18: in a list that get_recommendations returns, an entry never stands
\* before one of higher composite score 0.6 * base(severity) + 0.4 * 0
\* (base 0.2 / 0.6 / 0.9), and of two entries of equal score the one whose
\* rule is evaluated first stands first.
C18_RankedDescendingStable ==
    \A t \in Threads :
        Recommended(t) =>
            LET recs == result[t].value
                score(r) == (IF r.severity = "high" THEN 90
                             ELSE IF r.severity = "medium" THEN 60
                             ELSE 20) * 60
            IN  \A i, j \in 1..Len(recs) :
                    i < j =>
                        /\ score(recs[i]) >= score(recs[j])
                        /\ score(recs[i]) = score(recs[j])
                              => RuleOrder(recs[i].code) < RuleOrder(recs[j].code)

\* A returned list in which the ranking has moved an entry before one whose
\* rule is evaluated earlier, and which has two entries of equal score.
C18_Witness ==
    \E t \in Threads :
        /\ Recommended(t)
        /\ \E i, j \in 1..Len(result[t].value) :
              /\ i < j
              /\ RuleOrder(result[t].value[i].code)
                    > RuleOrder(result[t].value[j].code)
        /\ \E i, j \in 1..Len(result[t].value) :
              /\ i < j
              /\ result[t].value[i].severity = result[t].value[j].severity

\* C20: a get_recommendations call for a risk vector of numeric scores
\* returns; it does not raise, whatever the profile holds.
C20_NeverRaises ==
    \A t \in Threads :
        (pc[t] = "idle" /\ op[t] = "get_recommendations")
            => outcome[t] # "raised"

\* C19: two get_recommendations calls for the same patient with the same
\* risk_scores, symptoms, profile and max_recs that have read the same
\* stored thresholds have returned the same list: the same entries in the
\* same order, with the same severities and reasons.
C19_SameInputsSameList ==
    \A t, u \in Threads :
        ( /\ Recommended(t) /\ Recommended(u)
          /\ pid[t] = pid[u] /\ arg[t] = arg[u]
          /\ settings[t]["thresholds"] = settings[u]["thresholds"] )
        => result[t].value = result[u].value

\* Two calls of two threads with the same arguments have both returned a
\* list of several entries, ranked under stored thresholds.
C19_Witness ==
    \E t, u \in Threads :
        /\ t # u
        /\ Recommended(t) /\ Recommended(u)
        /\ pid[t] = pid[u] /\ arg[t] = arg[u]
        /\ settings[t]["thresholds"] = settings[u]["thresholds"]
        /\ settings[t]["thresholds"] # EmptyMap
        /\ Len(result[t].value) > 2

\* C12: a step that changes a patient's settings document or audit trail
\* is a step of an update_weights, update_thresholds, update_profile or
\* save_patient_settings call for that patient, never one of
\* load_patient_settings, auto_adapt_weights_from_context,
\* get_recommendations or explain; and no step removes a settings document.
C12_OnlyUpdatesChangeSettings ==
    [][ \A p \in Patients :
          /\ (StoredSettings(p)' # StoredSettings(p) \/ audit'[p] # audit[p])
                => \E t \in Threads :
                      /\ pc'[t] # pc[t]
                      /\ pid[t] = p
                      /\ op[t] \in UpdateOps \cup {"save_patient_settings"}
          /\ StoredSettings(p).kind # "absent"
                => StoredSettings(p)'.kind # "absent" ]_vars

\* A reading operation has returned for a patient who has stored settings
\* and an audit trail.
C12_Witness ==
    \E t \in Threads :
        /\ pc[t] = "idle" /\ outcome[t] = "ok"
        /\ op[t] \in ReaderOps \ {"load_patient_settings"}
        /\ StoredSettings(pid[t]).kind = "ok"
        /\ audit[pid[t]].rows # <<>>

\* ==================================================================
\* Properties of the fusion and of the inference request
\* ==================================================================
Combined(t) ==
    pc[t] = "idle" /\ op[t] = "combine_predictions" /\ outcome[t] = "ok"

\* C13: the map combine returns has the keys of the three input maps taken
\* together, and at each key k the value w_tabular * tabular(k) +
\* w_text * text(k) + w_image * image(k), with 0 for a map without k, moved
\* into [0, 1]; three empty maps give the empty map, and tabular
\* {diabetes: 0.6}, text {diabetes: 0.4}, image {} with weights
\* 0.5 / 0.5 / 0.2 give diabetes = 0.5.
C13_CombineIsClampedWeightedSum ==
    \A t \in Threads :
        Combined(t) =>
            LET a == arg[t]
                out == result[t].value
                at(m, k) == IF k \in DOMAIN m /\ m[k] # NotANumber
                            THEN m[k] ELSE 0
                sum(k) == a.weights["tabular"] * at(a.tabular_probs, k)
                            + a.weights["text"] * at(a.text_probs, k)
                            + a.weights["image"] * at(a.image_probs, k)
            IN  /\ DOMAIN out = DOMAIN a.tabular_probs
                      \cup DOMAIN a.text_probs \cup DOMAIN a.image_probs
                /\ \A k \in DOMAIN out :
                      /\ 0 <= out[k] /\ out[k] <= 10000
                      /\ (0 <= sum(k) /\ sum(k) <= 10000) => out[k] = sum(k)
                      /\ sum(k) < 0 => out[k] = 0
                      /\ sum(k) > 10000 => out[k] = 10000
                /\ ( /\ a.tabular_probs = EmptyMap
                     /\ a.text_probs = EmptyMap
                     /\ a.image_probs = EmptyMap ) => out = EmptyMap
                /\ ( /\ a.tabular_probs = ("diabetes" :> 60)
                     /\ a.text_probs = ("diabetes" :> 40)
                     /\ a.image_probs = EmptyMap
                     /\ a.weights = ("tabular" :> 50) @@ ("text" :> 50)
                                      @@ ("image" :> 20) )
                   => out = ("diabetes" :> 5000)

\* combine has returned a map with a key that only one input has and a
\* value that the clamp has cut to 1.
C13_Witness ==
    \E t \in Threads :
        /\ Combined(t)
        /\ \E k \in DOMAIN result[t].value :
              /\ k \notin DOMAIN arg[t].tabular_probs
              /\ result[t].value[k] > 0
        /\ \E k \in DOMAIN result[t].value :
              /\ result[t].value[k] = 10000
              /\ arg[t].weights["tabular"]
                    * Get(arg[t].tabular_probs, k, 0) > 10000

\* predict_risk has answered the request of the thread.
Answered(t) ==
    pc[t] = "idle" /\ op[t] = "predict_risk" /\ outcome[t] # "none"

\* C14: a predict_risk request during which the adapter of exactly one
\* modality (the tabular disease model, the text entity extractor or the
\* image classifier) failed or timed out, and nothing else, is answered with
\* status 200 and a fused risk vector, not with an error response.
C14_SingleAdapterFailureDegrades ==
    \A t \in Threads :
        ( /\ Answered(t)
          /\ locals[t].failed \in {{"tabular"}, {"text"}, {"image"}} )
        => /\ ~result[t].raised
           /\ result[t].value.status = 200

\* ==================================================================
\* Further properties of the recommender
\* ==================================================================
\* The ranked, deduplicated list of a get_recommendations call, from the
\* arguments of the call and the thresholds in force for the patient.
RankedList(t) ==
    MergeAndRank(RuleBasedRecommendations(arg[t].risk_scores,
                     arg[t].symptoms, arg[t].profile,
                     EffectiveThresholds(pid[t]), "hash_a"),
                 MlScoringHook)

\* C21: the list get_recommendations returns has at most max_recs entries
\* and is the ranked, deduplicated list cut after its first max_recs
\* entries: entry i of the one is entry i of the other, and no entry left
\* out has a higher composite score than one returned.
C21_FirstMaxRecsOfRanked ==
    \A t \in Threads :
        Recommended(t) =>
            LET recs == result[t].value
                full == RankedList(t)
            IN  /\ Len(recs) <= arg[t].max_recs
                /\ Len(recs) <= Len(full)
                /\ Len(recs) < arg[t].max_recs => Len(recs) = Len(full)
                /\ \A i \in 1..Len(recs) : recs[i] = full[i]
                /\ \A i \in 1..Len(recs) :
                       \A j \in (Len(recs) + 1)..Len(full) :
                           Composite(full[j], MlScoringHook)
                              <= Composite(recs[i], MlScoringHook)

\* A call has returned fewer entries than the ranked list has, and has left
\* out an entry of lower score than one it returned.
C21_Witness ==
    \E t \in Threads :
        /\ Recommended(t)
        /\ arg[t].max_recs > 0
        /\ Len(result[t].value) = arg[t].max_recs
        /\ \E j \in 1..Len(RankedList(t)) :
              /\ j > arg[t].max_recs
              /\ Composite(RankedList(t)[j], MlScoringHook)
                    < Composite(result[t].value[1], MlScoringHook)

RulesReturned(t) ==
    /\ pc[t] = "idle" /\ op[t] = "_rule_based_recommendations"
    /\ outcome[t] = "ok"

\* The value of a key of the profile when it is a number, and none when the
\* key is absent or its value is no number.
NumberAt(profile, k) ==
    IF k \in DOMAIN profile /\ profile[k] # NotANumber
    THEN {profile[k]} ELSE {}

\* C22: in the list the rule engine returns for a profile, R_BMI_1 is
\* present if and only if bmi >= 30, R_BMI_2 if and only if 25 <= bmi < 30,
\* never both, and R_SCREEN_1 if and only if age >= 50, whatever the bmi;
\* the profile bmi 32, age 55 with empty risk scores gives R_BMI_1 and
\* R_SCREEN_1 and no R_BMI_2.
C22_BmiBandsAndAgeRule ==
    \A t \in Threads :
        RulesReturned(t) =>
            LET codes == Codes(result[t].value)
                bmi == NumberAt(arg[t].profile, "bmi")
                age == NumberAt(arg[t].profile, "age")
            IN  /\ "R_BMI_1" \in codes <=> \E b \in bmi : b >= 30
                /\ "R_BMI_2" \in codes <=> \E b \in bmi : 25 <= b /\ b < 30
                /\ ~("R_BMI_1" \in codes /\ "R_BMI_2" \in codes)
                /\ "R_SCREEN_1" \in codes <=> \E a \in age : a >= 50
                /\ ( /\ arg[t].profile = ("bmi" :> 32) @@ ("age" :> 55)
                     /\ arg[t].risk_scores = EmptyMap )
                   => codes = {"R_BMI_1", "R_SCREEN_1"}

\* The rule engine has returned for the profile bmi 32, age 55 with empty
\* risk scores, with both entries in the list.
C22_Witness ==
    \E t \in Threads :
        /\ RulesReturned(t)
        /\ arg[t].profile = ("bmi" :> 32) @@ ("age" :> 55)
        /\ arg[t].risk_scores = EmptyMap
        /\ {"R_BMI_1", "R_SCREEN_1"} \subseteq Codes(result[t].value)

\* ==================================================================
\* Properties of the weight adapter
\* ==================================================================
AdaptReturned(t) ==
    /\ pc[t] = "idle" /\ op[t] = "auto_adapt_weights_from_context"
    /\ outcome[t] = "ok"

\* The weights the rules of the adapter adjust.
AdjustedKeys == {"disease", "symptom", "image"}

\* C23: the weight map computed for a patient, when the caller supplies no
\* map, has every key of the patient's stored weights, and at every such
\* key that no context rule adjusts the stored value, not the default:
\* after update_weights(p, {tabular: 0.9}) it has tabular = 0.9.
C23_StoredWeightsOverDefaults ==
    \A t \in Threads :
        (AdaptReturned(t) /\ arg[t] = EmptyMap) =>
            LET stored == NumericPart(
                              SettingsIn(StoredSettings(pid[t]))["weights"])
                w == result[t].value
            IN  \A k \in DOMAIN stored :
                    /\ k \in DOMAIN w
                    /\ k \notin AdjustedKeys => w[k] = stored[k]

\* The words of a stored context document, none for a document that is
\* absent or unreadable.
StoredText(o, p) ==
    IF files[ContextPath(o, p)].kind = "ok"
    THEN TextOf(files[ContextPath(o, p)]) ELSE {}

\* The weights that the rules adjust for the stored context of a patient.
AdjustedFor(p) ==
    (IF StoredText("update_history_context", p)
           \cap {"chronic", "long-term"} # {}
     THEN {"disease"} ELSE {})
      \cup
    (IF "inflammation" \in StoredText("update_history_context", p)
     THEN {"symptom"} ELSE {})
      \cup
    (IF StoredText("update_image_context", p) \cap {"retina", "lesion"} # {}
     THEN {"image"} ELSE {})

\* C24: in the map auto_adapt_weights_from_context returns, every weight
\* that a context rule has adjusted (disease, symptom, image) is at most
\* 2.0, for every base weight map, a map an earlier adaptation returned
\* included, and every stored context.
C24_AdjustedWeightsCapped ==
    \A t \in Threads :
        AdaptReturned(t) =>
            \A k \in AdjustedFor(pid[t]) :
                k \in DOMAIN result[t].value /\ result[t].value[k] <= 200

\* ==================================================================
\* Properties of the dashboard
\* ==================================================================
DashboardBuilt(t) ==
    /\ pc[t] = "idle" /\ op[t] = "build_patient_dashboard"
    /\ outcome[t] = "ok"

\* C25: the overall_health_status of the dashboard is Healthy when the mean
\* of the risk values is below 0.3, Moderate Risk when it is at least 0.3
\* and below 0.6, High Risk otherwise, and Healthy for no risk value at all.
C25_StatusFromMeanRisk ==
    \A t \in Threads :
        DashboardBuilt(t) =>
            LET risks == arg[t].risks
                n == Cardinality(DOMAIN risks)
                total == Get(risks, "diabetes", 0)
                           + Get(risks, "hypertension", 0)
                           + Get(risks, "cardiac", 0)
                status == result[t].value.overall_health_status
            IN  /\ (n = 0 \/ total < 30 * n) => status = "Healthy"
                /\ (n > 0 /\ 30 * n <= total /\ total < 60 * n)
                       => status = "Moderate Risk"
                /\ (n > 0 /\ 60 * n <= total) => status = "High Risk"

\* A dashboard has been built for three different risk values whose mean is
\* 0.3, the lower limit of Moderate Risk.
C25_Witness ==
    \E t \in Threads :
        /\ DashboardBuilt(t)
        /\ arg[t].risks = ("diabetes" :> 29) @@ ("hypertension" :> 30)
                            @@ ("cardiac" :> 31)
        /\ result[t].value.overall_health_status = "Moderate Risk"

\* ==================================================================
\* Properties of the per-patient lock
\* ==================================================================
\* C26: the calls of _get_lock for one patient all return the same lock
\* object, also when they run at the same time for a patient that has no
\* lock yet; and at most one thread at a time is inside the critical
\* section of save_patient_settings for a patient.
C26_OneLockPerPatient ==
    \A t, u \in Threads :
        (t # u /\ pid[t] = pid[u]) =>
            /\ (lock[t] # 0 /\ lock[u] # 0) => lock[t] = lock[u]
            /\ ~(InCritical(t) /\ InCritical(u))

\* The lock objects that a thread owns.
OwnedBy(t) == {i \in 1..Len(locks) : locks[i] = t}

\* C27: a thread owns a lock only while it is inside the critical section
\* of save_patient_settings, whether it leaves it by returning or by
\* raising; and under fair scheduling every update operation that has
\* started completes in the end, by returning or by raising.
C27_LockReleasedUpdatesComplete ==
    /\ [](\A t \in Threads : ~InCritical(t) => OwnedBy(t) = {})
    /\ \A t \in Threads :
          (op[t] \in UpdateOps /\ pc[t] # "idle") ~> (pc[t] = "idle")

\* Two updates of one patient that used the same lock object have
\* completed, one by raising and one by returning, and the lock is free.
C27_Witness ==
    \E t, u \in Threads :
        /\ t # u /\ pid[t] = pid[u]
        /\ op[t] \in UpdateOps /\ op[u] \in UpdateOps
        /\ pc[t] = "idle" /\ pc[u] = "idle"
        /\ outcome[t] = "raised" /\ outcome[u] = "ok"
        /\ lock[t] # 0 /\ lock[t] = lock[u]
        /\ locks[lock[t]] = NoThread

\* ==================================================================
\* A save that fails
\* ==================================================================
\* An update_* call has ended by the exception of its save.
UpdateRaised(t) ==
    pc[t] = "idle" /\ op[t] \in UpdateOps /\ outcome[t] = "raised"

\* C28: when the save of an update has failed while writing the settings
\* document, load_patient_settings returns for the patient what it returned
\* before the update, and the audit trail has no record for the failed
\* save: it has at most one record per save that returned.
C28_FailedSaveChangesNothing ==
    \A t \in Threads :
        UpdateRaised(t) =>
            /\ SettingsIn(StoredSettings(pid[t])) = before[t]
            /\ Len(AuditRecords(pid[t])) <= okSaves[pid[t]]

\* An update has failed in its save after an earlier update of the patient
\* was stored and recorded, and it would have changed the stored settings.
C28_Witness ==
    \E t \in Threads :
        /\ UpdateRaised(t)
        /\ lock[t] # 0
        /\ StoredSettings(pid[t]).kind = "ok"
        /\ okSaves[pid[t]] = 1
        /\ Len(AuditRecords(pid[t])) = 1
        /\ MergeUpdate(op[t], before[t], arg[t]) # before[t]

\* ==================================================================
\* explain and get_recommendations
\* ==================================================================
Explained(t) ==
    pc[t] = "idle" /\ op[t] = "explain" /\ outcome[t] = "ok"

\* C29: for a patient, explain(code, risk_scores, profile) reports the
\* severity and the reasons that get_recommendations, with the same risk
\* scores and profile and no symptoms, reports for the code, also when the
\* patient has stored threshold overrides; and it reports "not found" for
\* the codes that get_recommendations does not emit, and only for them.
C29_ExplainAgreesWithRecommendations ==
    \A t, u \in Threads :
        ( /\ Recommended(t) /\ Explained(u)
          /\ pid[t] = pid[u]
          /\ arg[t].risk_scores = arg[u].risk_scores
          /\ arg[t].profile = arg[u].profile
          /\ arg[t].symptoms = <<>>
          /\ Len(result[t].value) < arg[t].max_recs )
        => LET recs == result[t].value
               hits == {i \in 1..Len(recs) : recs[i].code = arg[u].code}
           IN  IF hits = {}
               THEN result[u].value = NotFound
               ELSE \A i \in hits :
                       result[u].value =
                           [code |-> recs[i].code,
                            severity |-> recs[i].severity,
                            reasons |-> recs[i].reasons]

\* ==================================================================
\* predict_risk when the recommender fails
\* ==================================================================
\* C30: a predict_risk request during which get_recommendations raised is
\* answered with status 200, the fused risk scores and an empty list of
\* preventive suggestions; it does not fail in a later step.
C30_RecommenderFailureDegrades ==
    \A t \in Threads :
        (Answered(t) /\ "recommender" \in locals[t].failed) =>
            /\ ~result[t].raised
            /\ result[t].value.status = 200
            /\ result[t].value.risk_scores = locals[t].fused
            /\ result[t].value.preventive_suggestions = <<>>

====
